---------------------------- MODULE Spec2Model ----------------------------
(***************************************************************************)
(* Model of the data integration and caching layer of the injury-info      *)
(* service: DataIntegrationService (cache, fan-out to the Google Sheets    *)
(* and HubSpot adapters, merge, deduplication, fallback) and the pure      *)
(* helpers it uses.                                                        *)
(*                                                                         *)
(* JavaScript strings are modelled as sequences of one-character strings,  *)
(* so that toLowerCase, includes and template concatenation are computed   *)
(* character by character.  null is the value NULL.                        *)
(***************************************************************************)
EXTENDS Integers, Sequences, FiniteSets, TLC

VARIABLES
    env,            \* process.env: which credentials are set
    googleSheets,   \* this.googleSheets: TRUE when constructed, FALSE when null
    hubspot,        \* this.hubspot: TRUE when constructed, FALSE when null
    cache,          \* this.cache: key -> [data, timestamp]
    now,            \* Date.now()
    calls,          \* the calls of the query operations in flight, by call slot
    returned,       \* the call that returned last, with its result
    provider,       \* the content of the spreadsheet and of the CRM
    cleared,        \* history: clearCache() ran and no call has started since
    history,        \* history: the first result returned for each key since the last clear
    pureIn,         \* input of the pure helper under check
    pureOut,        \* its output
    files,          \* the files of DataSourcesConnector's cache directory, by key
    writers,        \* the fs.writeFile operations of setCachedData in progress
    obtained        \* history: for each cache key, when the oldest provider response in its entry was obtained

vars == <<env, googleSheets, hubspot, provider, cache, obtained, now, calls, returned,
          cleared, history, pureIn, pureOut, files, writers>>

-----------------------------------------------------------------------------
(* Strings *)

NULL == <<"<null>">>

UpperChars == <<"A","B","C","D","E","F","G","H","I","J","K","L","M","N","O","P","Q","R","S","T","U","V","W","X","Y","Z">>
LowerChars == <<"a","b","c","d","e","f","g","h","i","j","k","l","m","n","o","p","q","r","s","t","u","v","w","x","y","z">>

LowerChar(c) ==
    IF \E i \in DOMAIN UpperChars : UpperChars[i] = c
    THEN LowerChars[CHOOSE i \in DOMAIN UpperChars : UpperChars[i] = c]
    ELSE c

\* String.prototype.toLowerCase
toLowerCase(s) == [i \in DOMAIN s |-> LowerChar(s[i])]

\* String.prototype.includes
includes(s, sub) ==
    \E i \in 0..(Len(s) - Len(sub)) : SubSeq(s, i + 1, i + Len(sub)) = sub

\* JavaScript truthiness of a string-or-null value
Truthy(x) == x # NULL /\ x # <<"<undefined>">> /\ x # <<>>

\* JavaScript truthiness of a free-text value
TruthyText(t) == t # "" /\ t # "<undefined>"

\* `${x}` of a string-or-null value
TemplateStr(x) ==
    IF x = NULL THEN <<"n","u","l","l">>
    ELSE IF x = <<"<undefined>">> THEN <<"u","n","d","e","f","i","n","e","d">>
    ELSE x

-----------------------------------------------------------------------------
(* Built-in fallback data *)

getFallbackArticles ==
    <<
       [id |-> <<"1">>,
        title |-> <<"M","e","s","o","t","h","e","l","i","o","m","a"," ","a","n","d"," ","A","s","b","e","s","t","o","s"," ","E","x","p","o","s","u","r","e">>,
        description |-> "Comprehensive guide to mesothelioma, its causes, symptoms, and legal options for victims of asbestos exposure.",
        slug |-> <<"m","e","s","o","t","h","e","l","i","o","m","a","-","a","s","b","e","s","t","o","s","-","e","x","p","o","s","u","r","e">>,
        overview |-> "Mesothelioma is a rare and aggressive cancer that develops in the lining of the lungs, abdomen, or heart. It is primarily caused by exposure to asbestos, a naturally occurring mineral that was widely used in construction, manufacturing, and other industries until the late 1970s.",
        source |-> "fallback"],
       [id |-> <<"2">>,
        title |-> <<"R","o","u","n","d","u","p"," ","W","e","e","d","k","i","l","l","e","r"," ","C","a","n","c","e","r"," ","L","a","w","s","u","i","t","s">>,
        description |-> "Information about Roundup lawsuits alleging the weedkiller causes non-Hodgkin lymphoma and other cancers.",
        slug |-> <<"r","o","u","n","d","u","p","-","w","e","e","d","k","i","l","l","e","r","-","c","a","n","c","e","r","-","l","a","w","s","u","i","t","s">>,
        overview |-> "Roundup is a popular weedkiller manufactured by Monsanto (now owned by Bayer). The active ingredient, glyphosate, has been linked to non-Hodgkin lymphoma and other cancers in numerous studies and lawsuits.",
        source |-> "fallback"],
       [id |-> <<"3">>,
        title |-> <<"3","M"," ","C","o","m","b","a","t"," ","A","r","m","s"," ","E","a","r","p","l","u","g"," ","L","i","t","i","g","a","t","i","o","n">>,
        description |-> "Details about the 3M earplug lawsuits alleging defective military earplugs caused hearing loss and tinnitus.",
        slug |-> <<"3","m","-","c","o","m","b","a","t","-","a","r","m","s","-","e","a","r","p","l","u","g","-","l","i","t","i","g","a","t","i","o","n">>,
        overview |-> "3M Combat Arms earplugs were issued to military personnel between 2003 and 2015. Veterans allege the earplugs were defective and failed to protect their hearing, leading to hearing loss and tinnitus.",
        source |-> "fallback"],
       [id |-> <<"4">>,
        title |-> <<"S","i","l","i","c","o","s","i","s"," ","a","n","d"," ","S","i","l","i","c","a"," ","D","u","s","t"," ","E","x","p","o","s","u","r","e">>,
        description |-> "Information about silicosis, a lung disease caused by exposure to silica dust in construction and manufacturing.",
        slug |-> <<"s","i","l","i","c","o","s","i","s","-","s","i","l","i","c","a","-","d","u","s","t","-","e","x","p","o","s","u","r","e">>,
        overview |-> "Silicosis is a progressive lung disease caused by inhaling crystalline silica dust. It commonly affects workers in construction, mining, manufacturing, and other industries where silica dust is present.",
        source |-> "fallback"],
       [id |-> <<"5">>,
        title |-> <<"T","a","l","c","u","m"," ","P","o","w","d","e","r"," ","O","v","a","r","i","a","n"," ","C","a","n","c","e","r"," ","L","a","w","s","u","i","t","s">>,
        description |-> "Information about talcum powder lawsuits alleging the product causes ovarian cancer in women.",
        slug |-> <<"t","a","l","c","u","m","-","p","o","w","d","e","r","-","o","v","a","r","i","a","n","-","c","a","n","c","e","r","-","l","a","w","s","u","i","t","s">>,
        overview |-> "Talcum powder lawsuits allege that Johnson & Johnson's talc-based products, including Baby Powder and Shower to Shower, contain asbestos and cause ovarian cancer in women who used them for feminine hygiene.",
        source |-> "fallback"],
       [id |-> <<"6">>,
        title |-> <<"P","a","r","a","q","u","a","t"," ","P","a","r","k","i","n","s","o","n","'","s"," ","D","i","s","e","a","s","e"," ","L","a","w","s","u","i","t","s">>,
        description |-> "Information about Paraquat lawsuits alleging the herbicide causes Parkinson's disease in agricultural workers.",
        slug |-> <<"p","a","r","a","q","u","a","t","-","p","a","r","k","i","n","s","o","n","s","-","d","i","s","e","a","s","e","-","l","a","w","s","u","i","t","s">>,
        overview |-> "Paraquat is a highly toxic herbicide used in agriculture. Studies have linked Paraquat exposure to an increased risk of Parkinson's disease, leading to thousands of lawsuits against manufacturers.",
        source |-> "fallback"]
    >>

getFallbackLawFirms ==
    <<
       [id |-> <<"f","a","l","l","b","a","c","k","_","f","i","r","m","_","1">>,
        name |-> "Saddle Rock Legal Group",
        location |-> <<"N","a","t","i","o","n","w","i","d","e">>,
        specialties |-> <<<<"M","e","s","o","t","h","e","l","i","o","m","a">>,
                          <<"A","s","b","e","s","t","o","s">>,
                          <<"P","r","o","d","u","c","t"," ","L","i","a","b","i","l","i","t","y">>>>,
        source |-> "fallback"],
       [id |-> <<"f","a","l","l","b","a","c","k","_","f","i","r","m","_","2">>,
        name |-> "National Injury Law Center",
        location |-> <<"C","a","l","i","f","o","r","n","i","a",","," ","T","e","x","a","s",","," ","F","l","o","r","i","d","a">>,
        specialties |-> <<<<"R","o","u","n","d","u","p">>,
                          <<"T","a","l","c","u","m"," ","P","o","w","d","e","r">>,
                          <<"M","e","d","i","c","a","l"," ","D","e","v","i","c","e","s">>>>,
        source |-> "fallback"],
       [id |-> <<"f","a","l","l","b","a","c","k","_","f","i","r","m","_","3">>,
        name |-> "Veterans Legal Services",
        location |-> <<"N","a","t","i","o","n","w","i","d","e">>,
        specialties |-> <<<<"3","M"," ","E","a","r","p","l","u","g","s">>,
                          <<"M","i","l","i","t","a","r","y"," ","I","n","j","u","r","i","e","s">>,
                          <<"V","A"," ","B","e","n","e","f","i","t","s">>>>,
        source |-> "fallback"]
    >>

FallbackText ==
    ("Comprehensive guide to mesothelioma, its causes, symptoms, and legal options for victims of asbestos exposure." :>
        <<"C","o","m","p","r","e","h","e","n","s","i","v","e"," ","g","u","i","d","e"," ","t","o"," ","m","e","s","o","t","h","e","l","i","o","m","a",","," ","i","t","s"," ","c","a","u","s","e","s",","," ","s","y","m","p","t","o","m","s",","," ","a","n","d"," ","l","e","g","a","l"," ","o","p","t","i","o","n","s"," ","f","o","r"," ","v","i","c","t","i","m","s"," ","o","f"," ","a","s","b","e","s","t","o","s"," ","e","x","p","o","s","u","r","e",".">>)
    @@ ("Mesothelioma is a rare and aggressive cancer that develops in the lining of the lungs, abdomen, or heart. It is primarily caused by exposure to asbestos, a naturally occurring mineral that was widely used in construction, manufacturing, and other industries until the late 1970s." :>
        <<"M","e","s","o","t","h","e","l","i","o","m","a"," ","i","s"," ","a"," ","r","a","r","e"," ","a","n","d"," ","a","g","g","r","e","s","s","i","v","e"," ","c","a","n","c","e","r"," ","t","h","a","t"," ","d","e","v","e","l","o","p","s"," ","i","n"," ","t","h","e"," ","l","i","n","i","n","g"," ","o","f"," ","t","h","e"," ","l","u","n","g","s",","," ","a","b","d","o","m","e","n",","," ","o","r"," ","h","e","a","r","t","."," ","I","t"," ","i","s"," ","p","r","i","m","a","r","i","l","y"," ","c","a","u","s","e","d"," ","b","y"," ","e","x","p","o","s","u","r","e"," ","t","o"," ","a","s","b","e","s","t","o","s",","," ","a"," ","n","a","t","u","r","a","l","l","y"," ","o","c","c","u","r","r","i","n","g"," ","m","i","n","e","r","a","l"," ","t","h","a","t"," ","w","a","s"," ","w","i","d","e","l","y"," ","u","s","e","d"," ","i","n"," ","c","o","n","s","t","r","u","c","t","i","o","n",","," ","m","a","n","u","f","a","c","t","u","r","i","n","g",","," ","a","n","d"," ","o","t","h","e","r"," ","i","n","d","u","s","t","r","i","e","s"," ","u","n","t","i","l"," ","t","h","e"," ","l","a","t","e"," ","1","9","7","0","s",".">>)
    @@ ("Information about Roundup lawsuits alleging the weedkiller causes non-Hodgkin lymphoma and other cancers." :>
        <<"I","n","f","o","r","m","a","t","i","o","n"," ","a","b","o","u","t"," ","R","o","u","n","d","u","p"," ","l","a","w","s","u","i","t","s"," ","a","l","l","e","g","i","n","g"," ","t","h","e"," ","w","e","e","d","k","i","l","l","e","r"," ","c","a","u","s","e","s"," ","n","o","n","-","H","o","d","g","k","i","n"," ","l","y","m","p","h","o","m","a"," ","a","n","d"," ","o","t","h","e","r"," ","c","a","n","c","e","r","s",".">>)
    @@ ("Roundup is a popular weedkiller manufactured by Monsanto (now owned by Bayer). The active ingredient, glyphosate, has been linked to non-Hodgkin lymphoma and other cancers in numerous studies and lawsuits." :>
        <<"R","o","u","n","d","u","p"," ","i","s"," ","a"," ","p","o","p","u","l","a","r"," ","w","e","e","d","k","i","l","l","e","r"," ","m","a","n","u","f","a","c","t","u","r","e","d"," ","b","y"," ","M","o","n","s","a","n","t","o"," ","(","n","o","w"," ","o","w","n","e","d"," ","b","y"," ","B","a","y","e","r",")","."," ","T","h","e"," ","a","c","t","i","v","e"," ","i","n","g","r","e","d","i","e","n","t",","," ","g","l","y","p","h","o","s","a","t","e",","," ","h","a","s"," ","b","e","e","n"," ","l","i","n","k","e","d"," ","t","o"," ","n","o","n","-","H","o","d","g","k","i","n"," ","l","y","m","p","h","o","m","a"," ","a","n","d"," ","o","t","h","e","r"," ","c","a","n","c","e","r","s"," ","i","n"," ","n","u","m","e","r","o","u","s"," ","s","t","u","d","i","e","s"," ","a","n","d"," ","l","a","w","s","u","i","t","s",".">>)
    @@ ("Details about the 3M earplug lawsuits alleging defective military earplugs caused hearing loss and tinnitus." :>
        <<"D","e","t","a","i","l","s"," ","a","b","o","u","t"," ","t","h","e"," ","3","M"," ","e","a","r","p","l","u","g"," ","l","a","w","s","u","i","t","s"," ","a","l","l","e","g","i","n","g"," ","d","e","f","e","c","t","i","v","e"," ","m","i","l","i","t","a","r","y"," ","e","a","r","p","l","u","g","s"," ","c","a","u","s","e","d"," ","h","e","a","r","i","n","g"," ","l","o","s","s"," ","a","n","d"," ","t","i","n","n","i","t","u","s",".">>)
    @@ ("3M Combat Arms earplugs were issued to military personnel between 2003 and 2015. Veterans allege the earplugs were defective and failed to protect their hearing, leading to hearing loss and tinnitus." :>
        <<"3","M"," ","C","o","m","b","a","t"," ","A","r","m","s"," ","e","a","r","p","l","u","g","s"," ","w","e","r","e"," ","i","s","s","u","e","d"," ","t","o"," ","m","i","l","i","t","a","r","y"," ","p","e","r","s","o","n","n","e","l"," ","b","e","t","w","e","e","n"," ","2","0","0","3"," ","a","n","d"," ","2","0","1","5","."," ","V","e","t","e","r","a","n","s"," ","a","l","l","e","g","e"," ","t","h","e"," ","e","a","r","p","l","u","g","s"," ","w","e","r","e"," ","d","e","f","e","c","t","i","v","e"," ","a","n","d"," ","f","a","i","l","e","d"," ","t","o"," ","p","r","o","t","e","c","t"," ","t","h","e","i","r"," ","h","e","a","r","i","n","g",","," ","l","e","a","d","i","n","g"," ","t","o"," ","h","e","a","r","i","n","g"," ","l","o","s","s"," ","a","n","d"," ","t","i","n","n","i","t","u","s",".">>)
    @@ ("Information about silicosis, a lung disease caused by exposure to silica dust in construction and manufacturing." :>
        <<"I","n","f","o","r","m","a","t","i","o","n"," ","a","b","o","u","t"," ","s","i","l","i","c","o","s","i","s",","," ","a"," ","l","u","n","g"," ","d","i","s","e","a","s","e"," ","c","a","u","s","e","d"," ","b","y"," ","e","x","p","o","s","u","r","e"," ","t","o"," ","s","i","l","i","c","a"," ","d","u","s","t"," ","i","n"," ","c","o","n","s","t","r","u","c","t","i","o","n"," ","a","n","d"," ","m","a","n","u","f","a","c","t","u","r","i","n","g",".">>)
    @@ ("Silicosis is a progressive lung disease caused by inhaling crystalline silica dust. It commonly affects workers in construction, mining, manufacturing, and other industries where silica dust is present." :>
        <<"S","i","l","i","c","o","s","i","s"," ","i","s"," ","a"," ","p","r","o","g","r","e","s","s","i","v","e"," ","l","u","n","g"," ","d","i","s","e","a","s","e"," ","c","a","u","s","e","d"," ","b","y"," ","i","n","h","a","l","i","n","g"," ","c","r","y","s","t","a","l","l","i","n","e"," ","s","i","l","i","c","a"," ","d","u","s","t","."," ","I","t"," ","c","o","m","m","o","n","l","y"," ","a","f","f","e","c","t","s"," ","w","o","r","k","e","r","s"," ","i","n"," ","c","o","n","s","t","r","u","c","t","i","o","n",","," ","m","i","n","i","n","g",","," ","m","a","n","u","f","a","c","t","u","r","i","n","g",","," ","a","n","d"," ","o","t","h","e","r"," ","i","n","d","u","s","t","r","i","e","s"," ","w","h","e","r","e"," ","s","i","l","i","c","a"," ","d","u","s","t"," ","i","s"," ","p","r","e","s","e","n","t",".">>)
    @@ ("Information about talcum powder lawsuits alleging the product causes ovarian cancer in women." :>
        <<"I","n","f","o","r","m","a","t","i","o","n"," ","a","b","o","u","t"," ","t","a","l","c","u","m"," ","p","o","w","d","e","r"," ","l","a","w","s","u","i","t","s"," ","a","l","l","e","g","i","n","g"," ","t","h","e"," ","p","r","o","d","u","c","t"," ","c","a","u","s","e","s"," ","o","v","a","r","i","a","n"," ","c","a","n","c","e","r"," ","i","n"," ","w","o","m","e","n",".">>)
    @@ ("Talcum powder lawsuits allege that Johnson & Johnson's talc-based products, including Baby Powder and Shower to Shower, contain asbestos and cause ovarian cancer in women who used them for feminine hygiene." :>
        <<"T","a","l","c","u","m"," ","p","o","w","d","e","r"," ","l","a","w","s","u","i","t","s"," ","a","l","l","e","g","e"," ","t","h","a","t"," ","J","o","h","n","s","o","n"," ","&"," ","J","o","h","n","s","o","n","'","s"," ","t","a","l","c","-","b","a","s","e","d"," ","p","r","o","d","u","c","t","s",","," ","i","n","c","l","u","d","i","n","g"," ","B","a","b","y"," ","P","o","w","d","e","r"," ","a","n","d"," ","S","h","o","w","e","r"," ","t","o"," ","S","h","o","w","e","r",","," ","c","o","n","t","a","i","n"," ","a","s","b","e","s","t","o","s"," ","a","n","d"," ","c","a","u","s","e"," ","o","v","a","r","i","a","n"," ","c","a","n","c","e","r"," ","i","n"," ","w","o","m","e","n"," ","w","h","o"," ","u","s","e","d"," ","t","h","e","m"," ","f","o","r"," ","f","e","m","i","n","i","n","e"," ","h","y","g","i","e","n","e",".">>)
    @@ ("Information about Paraquat lawsuits alleging the herbicide causes Parkinson's disease in agricultural workers." :>
        <<"I","n","f","o","r","m","a","t","i","o","n"," ","a","b","o","u","t"," ","P","a","r","a","q","u","a","t"," ","l","a","w","s","u","i","t","s"," ","a","l","l","e","g","i","n","g"," ","t","h","e"," ","h","e","r","b","i","c","i","d","e"," ","c","a","u","s","e","s"," ","P","a","r","k","i","n","s","o","n","'","s"," ","d","i","s","e","a","s","e"," ","i","n"," ","a","g","r","i","c","u","l","t","u","r","a","l"," ","w","o","r","k","e","r","s",".">>)
    @@ ("Paraquat is a highly toxic herbicide used in agriculture. Studies have linked Paraquat exposure to an increased risk of Parkinson's disease, leading to thousands of lawsuits against manufacturers." :>
        <<"P","a","r","a","q","u","a","t"," ","i","s"," ","a"," ","h","i","g","h","l","y"," ","t","o","x","i","c"," ","h","e","r","b","i","c","i","d","e"," ","u","s","e","d"," ","i","n"," ","a","g","r","i","c","u","l","t","u","r","e","."," ","S","t","u","d","i","e","s"," ","h","a","v","e"," ","l","i","n","k","e","d"," ","P","a","r","a","q","u","a","t"," ","e","x","p","o","s","u","r","e"," ","t","o"," ","a","n"," ","i","n","c","r","e","a","s","e","d"," ","r","i","s","k"," ","o","f"," ","P","a","r","k","i","n","s","o","n","'","s"," ","d","i","s","e","a","s","e",","," ","l","e","a","d","i","n","g"," ","t","o"," ","t","h","o","u","s","a","n","d","s"," ","o","f"," ","l","a","w","s","u","i","t","s"," ","a","g","a","i","n","s","t"," ","m","a","n","u","f","a","c","t","u","r","e","r","s",".">>)

UNDEFINED == <<"<undefined>">>
UndefinedText == "<undefined>"

\* The properties every object literal inherits from Object.prototype whose
\* names are unchanged by toLowerCase; defaults[key] finds them too
InheritedKeys ==
    { <<"c","o","n","s","t","r","u","c","t","o","r">>,
      <<"_","_","p","r","o","t","o","_","_">> }

\* Such an inherited value (a function or the prototype object) read as a
\* settlement record: every field is undefined
InheritedValue ==
    [condition |-> UNDEFINED,
     state |-> UNDEFINED,
     settlementRange |-> UndefinedText,
     averageSettlement |-> UndefinedText,
     totalCases |-> UndefinedText,
     year |-> UndefinedText,
     source |-> UndefinedText]

-----------------------------------------------------------------------------
(* Provider content used to exercise the service *)

ProviderText ==
    ("Sheet text on mesothelioma" :>
        <<"S","h","e","e","t"," ","t","e","x","t"," ","o","n"," ","m","e","s","o","t","h","e","l","i","o","m","a">>)
    @@ ("CRM text on mesothelioma" :>
        <<"C","R","M"," ","t","e","x","t"," ","o","n"," ","m","e","s","o","t","h","e","l","i","o","m","a">>)
    @@ ("CRM text on roundup" :>
        <<"C","R","M"," ","t","e","x","t"," ","o","n"," ","r","o","u","n","d","u","p">>)
    @@ ("Sheet text on a case" :>
        <<"S","h","e","e","t"," ","t","e","x","t"," ","o","n"," ","a"," ","c","a","s","e">>)

SettlementDefaults ==
    (<<"m","e","s","o","t","h","e","l","i","o","m","a">> :>
        [condition |-> <<"M","e","s","o","t","h","e","l","i","o","m","a">>,
         state |-> UNDEFINED,
         settlementRange |-> "$1.2 million to $2.4 million",
         averageSettlement |-> "$1.8 million",
         totalCases |-> "Thousands",
         year |-> "2024",
         source |-> "fallback"])
    @@ (<<"l","u","n","g"," ","c","a","n","c","e","r">> :>
        [condition |-> <<"L","u","n","g"," ","C","a","n","c","e","r">>,
         state |-> UNDEFINED,
         settlementRange |-> "$500,000 to $1.5 million",
         averageSettlement |-> "$1 million",
         totalCases |-> "Hundreds",
         year |-> "2024",
         source |-> "fallback"])
    @@ (<<"o","v","a","r","i","a","n"," ","c","a","n","c","e","r">> :>
        [condition |-> <<"O","v","a","r","i","a","n"," ","C","a","n","c","e","r">>,
         state |-> UNDEFINED,
         settlementRange |-> "$100,000 to $500,000",
         averageSettlement |-> "$300,000",
         totalCases |-> "Thousands",
         year |-> "2024",
         source |-> "fallback"])
    @@ (<<"n","o","n","-","h","o","d","g","k","i","n"," ","l","y","m","p","h","o","m","a">> :>
        [condition |-> <<"N","o","n","-","H","o","d","g","k","i","n"," ","L","y","m","p","h","o","m","a">>,
         state |-> UNDEFINED,
         settlementRange |-> "$50,000 to $250,000",
         averageSettlement |-> "$150,000",
         totalCases |-> "Hundreds",
         year |-> "2024",
         source |-> "fallback"])

\* The characters of the free-text values the service carries as opaque text
TextChars(t) ==
    IF t \in DOMAIN FallbackText THEN FallbackText[t]
    ELSE IF t \in DOMAIN ProviderText THEN ProviderText[t]
    ELSE <<>>

-----------------------------------------------------------------------------
(* Helper methods *)

AlnumChars == <<"a","b","c","d","e","f","g","h","i","j","k","l","m","n","o","p","q","r","s","t","u","v","w","x","y","z","0","1","2","3","4","5","6","7","8","9">>

IsAlnum(c) == \E i \in DOMAIN AlnumChars : AlnumChars[i] = c

RECURSIVE SkipNonAlnum(_)
SkipNonAlnum(s) ==
    IF s = <<>> \/ IsAlnum(Head(s)) THEN s ELSE SkipNonAlnum(Tail(s))

\* Mutant: every character outside a-z0-9 becomes a hyphen of its own
RECURSIVE ReplaceEachNonAlnum(_)
ReplaceEachNonAlnum(s) ==
    IF s = <<>> THEN <<>>
    ELSE IF IsAlnum(Head(s)) THEN <<Head(s)>> \o ReplaceEachNonAlnum(Tail(s))
    ELSE <<"-">> \o ReplaceEachNonAlnum(Tail(s))

\* .replace(/[^a-z0-9]+/g, '-')
RECURSIVE ReplaceNonAlnumRuns(_)
ReplaceNonAlnumRuns(s) ==
    IF s = <<>> THEN <<>>
    ELSE IF IsAlnum(Head(s)) THEN <<Head(s)>> \o ReplaceNonAlnumRuns(Tail(s))
    ELSE <<"-">> \o ReplaceNonAlnumRuns(SkipNonAlnum(Tail(s)))

\* .replace(/(^-|-$)/g, '')
StripEdgeHyphens(s) ==
    LET a == IF s # <<>> /\ Head(s) = "-" THEN Tail(s) ELSE s
    IN  IF a # <<>> /\ a[Len(a)] = "-" THEN SubSeq(a, 1, Len(a) - 1) ELSE a

createSlug(text) == StripEdgeHyphens(ReplaceNonAlnumRuns(toLowerCase(text)))

IsSeparator(c) == c \in {",", ";", "|"}

RECURSIVE trim(_)
trim(s) ==
    IF s # <<>> /\ Head(s) = " " THEN trim(Tail(s))
    ELSE IF s # <<>> /\ s[Len(s)] = " " THEN trim(SubSeq(s, 1, Len(s) - 1))
    ELSE s

\* text.split(/[,;|]/)
RECURSIVE split(_, _)
split(s, cur) ==
    IF s = <<>> THEN <<cur>>
    ELSE IF IsSeparator(Head(s)) THEN <<cur>> \o split(Tail(s), <<>>)
    ELSE split(Tail(s), Append(cur, Head(s)))

parseList(text) ==
    IF text = <<>> THEN <<>>
    ELSE LET items == split(text, <<>>)
             trimmed == [i \in DOMAIN items |-> trim(items[i])]
         IN  SelectSeq(trimmed, LAMBDA item : item # <<>>)

\* merged.filter(article => ...) with the Set `seen`
RECURSIVE FilterUnseen(_, _)
FilterUnseen(articles, seen) ==
    IF articles = <<>> THEN <<>>
    ELSE LET key == toLowerCase(Head(articles).title)
         IN  IF key \in seen
             THEN FilterUnseen(Tail(articles), seen)
             ELSE <<Head(articles)>> \o FilterUnseen(Tail(articles), seen \cup {key})

\* Mutant: the CRM's articles are merged first
mergeArticlesCrmFirst(sheetsArticles, hubspotArticles) ==
    FilterUnseen(hubspotArticles \o sheetsArticles, {})

mergeArticles(sheetsArticles, hubspotArticles) ==
    FilterUnseen(sheetsArticles \o hubspotArticles, {})

\* `${item.condition}_${item.state || 'all'}`
SettlementGroupKey(item) ==
    TemplateStr(item.condition) \o <<"_">> \o
        (IF Truthy(item.state) THEN item.state ELSE <<"a","l","l">>)

\* The keys of `grouped`, in insertion order
RECURSIVE GroupKeys(_, _)
GroupKeys(items, seen) ==
    IF items = <<>> THEN <<>>
    ELSE LET key == SettlementGroupKey(Head(items))
         IN  IF key \in seen
             THEN GroupKeys(Tail(items), seen)
             ELSE <<key>> \o GroupKeys(Tail(items), seen \cup {key})

\* group.reduce((best, current) => ...), from the group's first element
RECURSIVE ReduceBest(_, _)
ReduceBest(best, rest) ==
    IF rest = <<>> THEN best
    ELSE LET current == Head(rest)
         IN  ReduceBest(IF TruthyText(current.settlementRange) /\ ~TruthyText(best.settlementRange)
                        THEN current ELSE best,
                        Tail(rest))

mergeSettlementData(sheetsData, hubspotData) ==
    LET merged == sheetsData \o hubspotData
        keys == GroupKeys(merged, {})
        group(k) == SelectSeq(merged, LAMBDA item : SettlementGroupKey(item) = k)
    IN  [i \in DOMAIN keys |-> ReduceBest(Head(group(keys[i])), Tail(group(keys[i])))]

\* defaults[condition.toLowerCase()] || { condition, ... }
getDefaultSettlementData(condition) ==
    LET key == toLowerCase(condition)
    IN  << IF key \in DOMAIN SettlementDefaults THEN SettlementDefaults[key]
           ELSE IF key \in InheritedKeys THEN InheritedValue
           ELSE [condition |-> condition,
                 state |-> UNDEFINED,
                 settlementRange |-> "Varies by case",
                 averageSettlement |-> "Contact attorney for estimate",
                 totalCases |-> "Varies",
                 year |-> "2024",
                 source |-> "fallback"] >>
-----------------------------------------------------------------------------
(* Provider content *)

\* row[name] of a sheet row, for the columns read as strings
Col(row, name) == IF name \in DOMAIN row THEN row[name] ELSE <<>>

\* row[name] of a sheet row, for the free-text columns
ColText(row, name) == IF name \in DOMAIN row THEN row[name] ELSE ""

\* a || b on strings
OrElse(a, b) == IF Truthy(a) THEN a ELSE b
OrElseText(a, b) == IF TruthyText(a) THEN a ELSE b

\* row.ID || Math.random() in an id template.  The draw of Math.random() for a
\* row is part of the environment: it is carried by the row under "<random>",
\* and different rows carry different draws.
RowId(row) == OrElse(Col(row, "ID"), Col(row, "<random>"))

RowMeso ==
    ("ID" :> <<"1">>)
    @@ ("Condition Name" :> <<"M","e","s","o","t","h","e","l","i","o","m","a"," ","G","u","i","d","e">>)
    @@ ("Description" :> "Sheet text on mesothelioma")

RowCase ==
    ("ID" :> <<"1">>)
    @@ ("Case Name" :> <<"R","o","u","n","d","u","p"," ","L","a","w","s","u","i","t">>)
    @@ ("Case Summary" :> "Sheet text on a case")

RowAcme ==
    ("ID" :> <<"2">>)
    @@ ("Manufacturer" :> <<"A","c","m","e">>)
    @@ ("Product" :> <<"E","a","r","p","l","u","g","s">>)
    @@ ("Description" :> "Sheet text on a case")

\* A row of Medical Conditions that repeats the ID of RowMeso
RowAsbestosis ==
    ("ID" :> <<"1">>)
    @@ ("Condition Name" :> <<"A","s","b","e","s","t","o","s","i","s">>)
    @@ ("Description" :> "Sheet text on asbestosis")

\* Rows of Medical Conditions without an ID
RowSilicosis ==
    ("<random>" :> <<"0",".","2","5">>)
    @@ ("Condition Name" :> <<"S","i","l","i","c","o","s","i","s">>)
    @@ ("Description" :> "Sheet text on silicosis")

RowTalc ==
    ("<random>" :> <<"0",".","7","5">>)
    @@ ("Condition Name" :> <<"T","a","l","c">>)
    @@ ("Description" :> "Sheet text on talc")

\* Rows of Medical Conditions whose names differ in punctuation only
RowTalcPowder ==
    ("ID" :> <<"3">>)
    @@ ("Condition Name" :> <<"T","a","l","c"," ","P","o","w","d","e","r">>)
    @@ ("Description" :> "Sheet text on talc powder")

RowTalcDashPowder ==
    ("ID" :> <<"4">>)
    @@ ("Condition Name" :> <<"T","a","l","c","-","P","o","w","d","e","r">>)
    @@ ("Description" :> "Sheet text on talc powder claims")

DiseaseMeso ==
    [id |-> <<"7">>,
     name |-> <<"m","e","s","o","t","h","e","l","i","o","m","a"," ","g","u","i","d","e">>,
     description |-> "CRM text on mesothelioma"]

DiseaseRoundup ==
    [id |-> <<"8">>,
     name |-> <<"R","o","u","n","d","u","p"," ","L","a","w","s","u","i","t">>,
     description |-> "CRM text on roundup"]

\* A row of the 'Law Firms' sheet
RowFirm ==
    ("ID" :> <<"7">>)
    @@ ("Name" :> "Buckeye Injury Law")
    @@ ("Location" :> <<"O","h","i","o">>)
    @@ ("Specialties" :> <<"A","s","b","e","s","t","o","s",","," ","R","o","u","n","d","u","p">>)

\* A company the CRM search answers with
CompanyLoneStar ==
    [id |-> <<"9">>,
     name |-> "Lone Star Legal",
     city |-> <<"A","u","s","t","i","n">>,
     state |-> <<"T","X">>,
     law_firm_specialties |-> <<"R","o","u","n","d","u","p",";","T","a","l","c">>]

NoContent ==
    [medical |-> <<>>, legal |-> <<>>, manufacturer |-> <<>>, diseases |-> <<>>,
     firms |-> <<>>, companies |-> <<>>]

\* Both providers hold an article titled "mesothelioma guide" up to case
MedicalWorld ==
    [NoContent EXCEPT !.medical = <<RowMeso>>,
                      !.diseases = <<DiseaseMeso, DiseaseRoundup>>]

CasesWorld ==
    [NoContent EXCEPT !.legal = <<RowCase>>, !.manufacturer = <<RowAcme>>,
                      !.diseases = <<DiseaseRoundup>>]

FirmsWorld ==
    [NoContent EXCEPT !.firms = <<RowFirm>>, !.companies = <<CompanyLoneStar>>]

FullWorld ==
    [MedicalWorld EXCEPT !.firms = <<RowFirm>>]

\* The sheet has rows that omit the ID
UnnumberedWorld ==
    [NoContent EXCEPT !.medical = <<RowSilicosis, RowTalc>>]

\* The sheet has two rows with one ID
RepeatWorld ==
    [NoContent EXCEPT !.medical = <<RowMeso, RowAsbestosis>>]

\* The sheet has two rows whose names differ in punctuation only
PunctuationWorld ==
    [NoContent EXCEPT !.medical = <<RowTalcPowder, RowTalcDashPowder>>]

Worlds ==
    {NoContent, MedicalWorld, CasesWorld, FirmsWorld, FullWorld, UnnumberedWorld, RepeatWorld,
     PunctuationWorld}

\* The rows of a sheet of the spreadsheet
SheetRows(sheetName) ==
    CASE sheetName = "Medical Conditions" -> provider.medical
      [] sheetName = "Legal Cases" -> provider.legal
      [] sheetName = "Manufacturer Cases" -> provider.manufacturer
      [] sheetName = "Law Firms" -> provider.firms
      [] OTHER -> <<>>

\* The arguments the clients pass
Conditions == {<<"r","o","u","n","d","u","p">>, <<"x","y","z">>}
Specialties == {NULL, <<"r","o","u","n","d","u","p">>, <<"x","y","z">>}
Locations == {NULL, <<"U","t","a","h">>}

-----------------------------------------------------------------------------
(* DataIntegrationService *)

cacheTimeout == 5 * 60 * 1000

MaxCalls == 3
MaxTicks == 2
TickStep == cacheTimeout \div 2

CallIds == 1..MaxCalls

mapSheetRowToArticle(row, sheetName) ==
    CASE sheetName = "Medical Conditions" ->
           LET title == OrElse(Col(row, "Condition Name"), Col(row, "Name"))
               description == OrElseText(ColText(row, "Description"),
                                         ColText(row, "Medical Description"))
           IN  [id |-> <<"s","h","e","e","t","s","_","m","e","d","i","c","a","l","_">> \o RowId(row),
                title |-> title,
                description |-> description,
                slug |-> createSlug(title),
                overview |-> description,
                source |-> "google_sheets"]
      [] sheetName = "Legal Cases" ->
           LET title == OrElse(Col(row, "Case Name"), Col(row, "Name"))
               description == OrElseText(ColText(row, "Description"),
                                         ColText(row, "Case Summary"))
           IN  [id |-> <<"s","h","e","e","t","s","_","l","e","g","a","l","_">> \o RowId(row),
                title |-> title,
                description |-> description,
                slug |-> createSlug(title),
                overview |-> description,
                source |-> "google_sheets"]
      [] sheetName = "Manufacturer Cases" ->
           LET maker == OrElse(Col(row, "Manufacturer"), Col(row, "Company"))
               description == OrElseText(ColText(row, "Description"),
                                         ColText(row, "Case Summary"))
           IN  [id |-> <<"s","h","e","e","t","s","_","m","a","n","u","f","a","c","t","u","r","e","r","_">> \o RowId(row),
                title |-> maker \o <<" ","-"," ">> \o Col(row, "Product"),
                description |-> description,
                slug |-> createSlug(maker \o <<"-">> \o Col(row, "Product")),
                overview |-> description,
                source |-> "google_sheets"]

\* diseases.map(disease => ({ ... })) of getArticlesFromHubSpot
mapDiseaseToArticle(disease) ==
    [id |-> <<"h","u","b","s","p","o","t","_">> \o disease.id,
     title |-> disease.name,
     description |-> disease.description,
     slug |-> createSlug(disease.name),
     overview |-> disease.description,
     source |-> "hubspot"]


\* data.filter(...).map(firm => ({ ... })) of getLawFirmsFromGoogleSheets; the
\* fields no operation reads (phone, website, experience, ...) are left out
mapSheetRowToFirm(firm) ==
    [id |-> <<"s","h","e","e","t","s","_","f","i","r","m","_">> \o RowId(firm),
     name |-> OrElseText(ColText(firm, "Name"), ColText(firm, "Firm Name")),
     location |-> OrElse(Col(firm, "Location"),
                         Col(firm, "City") \o <<",", " ">> \o Col(firm, "State")),
     specialties |-> parseList(Col(firm, "Specialties")),
     source |-> "google_sheets"]

\* String.prototype.split(';')
RECURSIVE splitSemicolon(_, _)
splitSemicolon(s, cur) ==
    IF s = <<>> THEN <<cur>>
    ELSE IF Head(s) = ";" THEN <<cur>> \o splitSemicolon(Tail(s), <<>>)
    ELSE splitSemicolon(Tail(s), Append(cur, Head(s)))

\* data.results.map(company => ({ ... })) of findLawFirms followed by
\* firms.map(firm => ({ ... })) of getLawFirmsFromHubSpot
mapCompanyToFirm(company) ==
    [id |-> <<"h","u","b","s","p","o","t","_","f","i","r","m","_">> \o company.id,
     name |-> company.name,
     location |-> company.city \o <<",", " ">> \o company.state,
     specialties |-> splitSemicolon(company.law_firm_specialties, <<>>),
     source |-> "hubspot"]

\* Mutant: an entry is served for half the ttl only
CacheFreshHalfTtl(store, key) ==
    key \in DOMAIN store /\ now - store[key].timestamp < TickStep

\* Cache management
CacheFresh(store, key) ==
    key \in DOMAIN store /\ now - store[key].timestamp < cacheTimeout

\* The cache after getFromCache(key): an entry that is not returned is deleted
getFromCache(store, key) ==
    IF CacheFresh(store, key) THEN store
    ELSE [k \in DOMAIN store \ {key} |-> store[k]]

\* Mutant: the fallback list is returned without being stored
setCacheSkipFallback(store, key, data) ==
    IF data = getFallbackArticles THEN store
    ELSE [k \in DOMAIN store \cup {key} |->
             IF k = key THEN [data |-> data, timestamp |-> now] ELSE store[k]]

\* Mutant: an entry that exists is kept, the first writer wins
setCacheKeepFirst(store, key, data) ==
    IF key \in DOMAIN store THEN store
    ELSE [k \in DOMAIN store \cup {key} |->
             IF k = key THEN [data |-> data, timestamp |-> now] ELSE store[k]]

setCache(store, key, data) ==
    [k \in DOMAIN store \cup {key} |->
        IF k = key THEN [data |-> data, timestamp |-> now] ELSE store[k]]

\* The cacheKey template literal of each operation
CacheKey(op, a1, a2) ==
    CASE op = "getAllArticles" -> <<"a","l","l","_","a","r","t","i","c","l","e","s">>
      [] op = "getLawFirms" ->
           <<"l","a","w","_","f","i","r","m","s","_">> \o TemplateStr(a1) \o <<"_">> \o TemplateStr(a2)
      [] op = "getSettlementData" ->
           <<"s","e","t","t","l","e","m","e","n","t","_">> \o TemplateStr(a1) \o <<"_">> \o TemplateStr(a2)
      [] op = "searchCondition" -> <<"s","e","a","r","c","h","_">> \o TemplateStr(a1)

\* A call slot: idle, waiting for its adapters, or done.  A slot serves one
\* call.  subs are the three sub-operations of a searchCondition call.
IdleCall ==
    [pc |-> "idle", op |-> "none", a1 |-> NULL, a2 |-> NULL, subs |-> <<>>,
     prev |-> {}, prevQuiet |-> {}, settled |-> FALSE]

\* No call returned in the last step
NoReturn == [op |-> "none"]

\* No call is waiting for its adapters
Quiet == \A c \in CallIds : calls[c].pc # "wait"

\* History: for each key, the first call since the last clearCache() that
\* stored a result whose ttl has not elapsed: its result, the timestamp of its
\* cache entry, and whether no other call has stored a result for the key since
Earlier(key) == {h \in history : h.key = key /\ now - h.at < cacheTimeout}

Remember(hist, key, res) ==
    IF \E h \in hist : h.key = key
    THEN {[h EXCEPT !.quiet = (h.key # key /\ h.quiet)] : h \in hist}
    ELSE hist \cup {[key |-> key, result |-> res, at |-> now, quiet |-> TRUE]}

\* The sheets an operation's spreadsheet adapter reads, in order
SheetsToRead(op) ==
    CASE op = "getAllArticles" ->
           <<"Medical Conditions", "Legal Cases", "Manufacturer Cases">>
      [] op = "getLawFirms" -> <<"Law Firms">>
      [] op = "getSettlementData" -> <<"Settlements">>

\* Mutant: a sheet that cannot be read discards the rows of the other sheets
RECURSIVE ArticlesFromSheetsAbort(_, _, _)
ArticlesFromSheetsAbort(sheets, ok, n) ==
    IF n = 0 \/ ~ok[n] THEN <<>>
    ELSE ArticlesFromSheetsAbort(sheets, ok, n - 1) \o
         [i \in DOMAIN SheetRows(sheets[n]) |->
             mapSheetRowToArticle(SheetRows(sheets[n])[i], sheets[n])]

\* The articles the spreadsheet adapter has collected after the reads of the
\* first n sheets, where ok[i] tells whether the i-th readSheet answered or threw
RECURSIVE ArticlesFromSheets(_, _, _)
ArticlesFromSheets(sheets, ok, n) ==
    IF n = 0 THEN <<>>
    ELSE ArticlesFromSheets(sheets, ok, n - 1) \o
         (IF ok[n]
          THEN [i \in DOMAIN SheetRows(sheets[n]) |->
                    mapSheetRowToArticle(SheetRows(sheets[n])[i], sheets[n])]
          ELSE <<>>)

getArticlesFromGoogleSheets(ok) ==
    IF ~googleSheets THEN <<>>
    ELSE ArticlesFromSheets(SheetsToRead("getAllArticles"), ok,
                            Len(SheetsToRead("getAllArticles")))

getArticlesFromHubSpot(ok) ==
    IF ~hubspot THEN <<>>
    ELSE IF ok
    THEN [i \in DOMAIN provider.diseases |-> mapDiseaseToArticle(provider.diseases[i])]
    ELSE <<>>

\* The filter of getLawFirmsFromGoogleSheets
FirmRowMatches(firm, specialty, location) ==
    /\ ~(Truthy(specialty) /\
         ~includes(toLowerCase(Col(firm, "Specialties")), toLowerCase(specialty)))
    /\ ~(Truthy(location) /\
         ~includes(toLowerCase(Col(firm, "Location")), toLowerCase(location)))

getLawFirmsFromGoogleSheets(specialty, location, ok) ==
    IF ~googleSheets THEN <<>>
    ELSE IF ok
    THEN LET data == SelectSeq(SheetRows("Law Firms"),
                               LAMBDA firm : FirmRowMatches(firm, specialty, location))
         IN  [i \in DOMAIN data |-> mapSheetRowToFirm(data[i])]
    ELSE <<>>

\* provider.companies is what the CRM search answers to the request
getLawFirmsFromHubSpot(specialty, location, ok) ==
    IF ~hubspot THEN <<>>
    ELSE IF ok
    THEN [i \in DOMAIN provider.companies |-> mapCompanyToFirm(provider.companies[i])]
    ELSE <<>>

\* searchSheet answers { results, total, query, column }: the `data` the
\* adapter destructures is undefined, data.filter throws, the catch returns []
getSettlementDataFromGoogleSheets(condition, state, ok) == <<>>

\* The connector's getSettlementData answers one object, never a list:
\* data.map throws, the catch returns []
getSettlementDataFromHubSpot(condition, state, ok) == <<>>

\* What the spreadsheet adapter of the operation resolves to
SheetsAdapter(op, a1, a2, ok) ==
    CASE op = "getAllArticles" -> getArticlesFromGoogleSheets(ok)
      [] op = "getLawFirms" -> getLawFirmsFromGoogleSheets(a1, a2, ok[1])
      [] op = "getSettlementData" -> getSettlementDataFromGoogleSheets(a1, a2, ok[1])

\* What the CRM adapter of the operation resolves to
HubSpotAdapter(op, a1, a2, ok) ==
    CASE op = "getAllArticles" -> getArticlesFromHubSpot(ok)
      [] op = "getLawFirms" -> getLawFirmsFromHubSpot(a1, a2, ok)
      [] op = "getSettlementData" -> getSettlementDataFromHubSpot(a1, a2, ok)

\* The outcomes of a CRM request: it answers or throws; without the token the
\* request is sent with 'Bearer undefined', the CRM refuses it and the
\* connector throws
Authorized == IF env.HUBSPOT_ACCESS_TOKEN THEN BOOLEAN ELSE {FALSE}

\* The values the adapters of the operation can resolve to, over every
\* combination of provider requests that answer and that throw
SheetsOutcomes(op, a1, a2) ==
    {SheetsAdapter(op, a1, a2, ok) : ok \in [DOMAIN SheetsToRead(op) -> BOOLEAN]}

HubSpotOutcomes(op, a1, a2) ==
    {HubSpotAdapter(op, a1, a2, ok) : ok \in Authorized}

\* Mutant: the values in the order in which the adapters resolved
PromiseAllArrival(sheetsVal, hubVal, lastResolved) ==
    IF lastResolved = "google_sheets" THEN <<hubVal, sheetsVal>> ELSE <<sheetsVal, hubVal>>

\* const [a, b] = await Promise.all([sheets, hubspot]): the values by position,
\* whichever adapter resolved last
PromiseAll(sheetsVal, hubVal, lastResolved) == <<sheetsVal, hubVal>>

\* Mutant: the fallback firms are matched case-sensitively
FilterFallbackFirmsExactCase(specialty) ==
    IF Truthy(specialty)
    THEN SelectSeq(getFallbackLawFirms,
                   LAMBDA firm : \E i \in DOMAIN firm.specialties :
                       includes(firm.specialties[i], specialty))
    ELSE getFallbackLawFirms

\* fallbackFirms.filter(firm => firm.specialties.some(...)) of getLawFirms
FilterFallbackFirms(specialty) ==
    IF Truthy(specialty)
    THEN SelectSeq(getFallbackLawFirms,
                   LAMBDA firm : \E i \in DOMAIN firm.specialties :
                       includes(toLowerCase(firm.specialties[i]), toLowerCase(specialty)))
    ELSE getFallbackLawFirms

\* Mutant: an empty merge is returned as it is
AggregateNoFallback(op, a1, a2, values) == mergeArticles(values[1], values[2])

\* Mutant: the fallback is appended to what the providers returned
AggregateBlend(op, a1, a2, values) ==
    CASE op = "getAllArticles" ->
           mergeArticles(values[1], values[2]) \o getFallbackArticles
      [] op = "getLawFirms" ->
           values[1] \o values[2] \o FilterFallbackFirms(a1)
      [] op = "getSettlementData" ->
           mergeSettlementData(values[1], values[2]) \o getDefaultSettlementData(a1)

\* The rest of an operation after its Promise.all: merge, fallback
Aggregate(op, a1, a2, values) ==
    CASE op = "getAllArticles" ->
           LET allArticles == mergeArticles(values[1], values[2])
           IN  IF Len(allArticles) = 0 THEN getFallbackArticles ELSE allArticles
      [] op = "getLawFirms" ->
           LET allFirms == values[1] \o values[2]
           IN  IF Len(allFirms) = 0 THEN FilterFallbackFirms(a1) ELSE allFirms
      [] op = "getSettlementData" ->
           LET mergedData == mergeSettlementData(values[1], values[2])
           IN  IF Len(mergedData) = 0 THEN getDefaultSettlementData(a1) ELSE mergedData

\* The rest of the operation throws, in its try block and again in its catch
\* block: getDefaultSettlementData(condition) calls condition.toLowerCase(),
\* which a missing condition does not have
AggregateThrows(op, a1, a2, values) ==
    /\ op = "getSettlementData"
    /\ a1 = UNDEFINED
    /\ Len(mergeSettlementData(values[1], values[2])) = 0

\* allArticles.filter(article => ...) of searchArticles
searchArticles(condition, allArticles) ==
    SelectSeq(allArticles,
              LAMBDA article :
                  \/ includes(toLowerCase(article.title), toLowerCase(condition))
                  \/ includes(toLowerCase(TextChars(article.description)),
                              toLowerCase(condition))
                  \/ includes(toLowerCase(TextChars(article.overview)),
                              toLowerCase(condition)))

\* The object searchCondition composes; its summary string is left out
SearchResult(condition, allArticles, lawFirms, settlements) ==
    [condition |-> condition,
     articles |-> searchArticles(condition, allArticles),
     lawFirms |-> lawFirms,
     settlements |-> settlements]

\* The number of provider requests of a fan-out
Requests(op) ==
    (IF googleSheets THEN Len(SheetsToRead(op)) ELSE 0) + (IF hubspot THEN 1 ELSE 0)

\* History: the times of the oldest provider responses of the entries of the
\* cache `after` a step that has written the keys of `written`
Track(after, written) ==
    [k \in DOMAIN after |-> IF k \in DOMAIN written THEN written[k] ELSE obtained[k]]

ReturnRecord(op, a1, a2) ==
    [op |-> op, a1 |-> a1, a2 |-> a2, hit |-> FALSE, reqs |-> 0,
     sheetsVal |-> <<>>, hubVal |-> <<>>, lastResolved |-> "none",
     result |-> <<>>, afterClear |-> FALSE, prev |-> {}, prevQuiet |-> {},
     subs |-> <<>>, obtained |-> now, threw |-> FALSE]

\* The record of a call answered from the cache
HitRecord(op, a1, a2) ==
    LET key == CacheKey(op, a1, a2)
    IN  [ReturnRecord(op, a1, a2) EXCEPT
            !.hit = TRUE,
            !.result = cache[key].data,
            !.afterClear = cleared,
            !.obtained = obtained[key],
            !.prev = {h.result : h \in Earlier(key)},
            !.prevQuiet = {h.result : h \in {e \in Earlier(key) : e.quiet}}]

\* getAllArticles, getLawFirms or getSettlementData up to its first await: the
\* cache lookup and, on a miss, the start of both adapters.  The call takes
\* the next unused slot.
Start(c, op, a1, a2) ==
    /\ calls[c].pc = "idle"
    /\ \A d \in CallIds : d < c => calls[d].pc # "idle"
    /\ LET key == CacheKey(op, a1, a2)
       IN  IF CacheFresh(cache, key)
           THEN /\ calls' = [calls EXCEPT ![c] = [IdleCall EXCEPT !.pc = "done"]]
                /\ returned' = HitRecord(op, a1, a2)
                /\ UNCHANGED cache
           ELSE /\ calls' = [calls EXCEPT ![c] =
                                [pc |-> "wait", op |-> op, a1 |-> a1, a2 |-> a2,
                                 subs |-> <<>>, settled |-> FALSE,
                                 prev |-> {h.result : h \in Earlier(key)},
                                 prevQuiet |-> {h.result : h \in
                                                   {e \in Earlier(key) : e.quiet}}]]
                /\ returned' = NoReturn
                /\ cache' = getFromCache(cache, key)
    /\ obtained' = Track(cache', <<>>)
    /\ cleared' = FALSE
    /\ UNCHANGED <<env, googleSheets, hubspot, provider, now, history, pureIn, pureOut,
                 files, writers>>

\* Both adapters of call c have resolved, the spreadsheet adapter or the CRM
\* adapter last, and the continuation after Promise.all runs: it merges,
\* substitutes the fallback, stores the result and returns it.  What an adapter
\* does between its request and its resolution touches nothing but its own
\* list, so the fan-out is one step.
Resolve(c) ==
    /\ calls[c].pc = "wait"
    /\ calls[c].op # "searchCondition"
    /\ LET op == calls[c].op
           a1 == calls[c].a1
           a2 == calls[c].a2
       IN  \E sheetsVal \in SheetsOutcomes(op, a1, a2),
              hubVal \in HubSpotOutcomes(op, a1, a2),
              lastResolved \in {"google_sheets", "hubspot"} :
             IF AggregateThrows(op, a1, a2, PromiseAll(sheetsVal, hubVal, lastResolved))
             THEN /\ returned' = [ReturnRecord(op, a1, a2) EXCEPT
                                     !.reqs = Requests(op),
                                     !.threw = TRUE]
                  /\ UNCHANGED <<cache, history, obtained>>
             ELSE
             \E res \in {Aggregate(op, a1, a2, PromiseAll(sheetsVal, hubVal, lastResolved))} :
               /\ returned' = [ReturnRecord(op, a1, a2) EXCEPT
                                  !.reqs = Requests(op),
                                  !.sheetsVal = sheetsVal,
                                  !.hubVal = hubVal,
                                  !.lastResolved = lastResolved,
                                  !.result = res,
                                  !.prev = calls[c].prev,
                                  !.prevQuiet = calls[c].prevQuiet]
               /\ cache' = setCache(cache, CacheKey(op, a1, a2), res)
               /\ history' = Remember(history, CacheKey(op, a1, a2), res)
               /\ obtained' = Track(cache', CacheKey(op, a1, a2) :> now)
    /\ calls' = [calls EXCEPT ![c] = [IdleCall EXCEPT !.pc = "done"]]
    /\ UNCHANGED <<env, googleSheets, hubspot, provider, now, cleared, pureIn, pureOut,
                 files, writers>>

\* A sub-operation of searchCondition up to its first await, on the cache
\* `store`: its state and the cache after its lookup
StartSub(store, op, a1, a2) ==
    LET key == CacheKey(op, a1, a2)
        fresh == CacheFresh(store, key)
    IN  [sub |-> [op |-> op, a1 |-> a1, a2 |-> a2,
                  pc |-> IF fresh THEN "done" ELSE "wait",
                  hit |-> fresh, sheetsVal |-> <<>>, hubVal |-> <<>>,
                  result |-> IF fresh THEN store[key].data ELSE <<>>,
                  obtained |-> IF fresh THEN obtained[key] ELSE now,
                  threw |-> FALSE],
         store |-> getFromCache(store, key)]

\* History: when the oldest provider response among the sub-results was obtained
Oldest(subs) ==
    CHOOSE t \in {subs[i].obtained : i \in DOMAIN subs} :
        \A i \in DOMAIN subs : t <= subs[i].obtained

\* specialty = null: the default of a parameter that is not passed
DefaultNull(x) == IF x = UNDEFINED THEN NULL ELSE x

\* A promise of Promise.all has rejected: a sub-operation threw, or
\* searchArticles called condition.toLowerCase() on a missing condition after
\* its getAllArticles returned
Rejected(condition, subs) ==
    \/ condition = UNDEFINED /\ subs[1].pc = "done"
    \/ \E i \in DOMAIN subs : subs[i].pc = "done" /\ subs[i].threw

\* The object searchCondition returns from its catch block
SearchCaught(condition) ==
    [condition |-> condition, articles |-> <<>>, lawFirms |-> <<>>, settlements |-> <<>>]

\* The call slot of a searchCondition call that has returned from its catch
\* block: its other sub-operations run on
AfterCatch(condition, subs) ==
    IF \A i \in DOMAIN subs : subs[i].pc = "done"
    THEN [IdleCall EXCEPT !.pc = "done"]
    ELSE [IdleCall EXCEPT !.pc = "wait", !.op = "searchCondition", !.a1 = condition,
                          !.subs = subs, !.settled = TRUE]

\* searchCondition after a step of its sub-operations: when the three are
\* done, the continuation after Promise.all composes the result, stores and
\* returns it; at the first rejection the catch block returns instead
SearchSettle(c, condition, subs, store, hist, written) ==
    IF calls[c].settled
    THEN /\ calls' = [calls EXCEPT ![c] = AfterCatch(condition, subs)]
         /\ returned' = NoReturn
         /\ cache' = store
         /\ history' = hist
         /\ obtained' = Track(cache', written)
    ELSE IF Rejected(condition, subs)
    THEN /\ calls' = [calls EXCEPT ![c] = AfterCatch(condition, subs)]
         /\ returned' = [ReturnRecord("searchCondition", condition, NULL) EXCEPT
                            !.result = SearchCaught(condition), !.subs = subs]
         /\ cache' = store
         /\ history' = hist
         /\ obtained' = Track(cache', written)
    ELSE IF \A i \in DOMAIN subs : subs[i].pc = "done"
    THEN \E res \in {SearchResult(condition, subs[1].result, subs[2].result,
                                  subs[3].result)} :
           /\ calls' = [calls EXCEPT ![c] = [IdleCall EXCEPT !.pc = "done"]]
           /\ returned' = [ReturnRecord("searchCondition", condition, NULL) EXCEPT
                              !.result = res, !.subs = subs,
                              !.obtained = Oldest(subs)]
           /\ cache' = setCache(store, CacheKey("searchCondition", condition, NULL), res)
           /\ history' = Remember(hist, CacheKey("searchCondition", condition, NULL), res)
           /\ obtained' = Track(cache', written @@
                               (CacheKey("searchCondition", condition, NULL) :> Oldest(subs)))
    ELSE /\ calls' = [calls EXCEPT ![c] =
                         [IdleCall EXCEPT !.pc = "wait", !.op = "searchCondition",
                                          !.a1 = condition, !.subs = subs]]
         /\ returned' = NoReturn
         /\ cache' = store
         /\ history' = hist
         /\ obtained' = Track(cache', written)

\* searchCondition up to its first await: the cache lookup and, on a miss, the
\* start of searchArticles (getAllArticles), getLawFirms and getSettlementData
searchCondition(c, condition) ==
    /\ calls[c].pc = "idle"
    /\ \A d \in CallIds : d < c => calls[d].pc # "idle"
    /\ LET key == CacheKey("searchCondition", condition, NULL)
       IN  IF CacheFresh(cache, key)
           THEN /\ calls' = [calls EXCEPT ![c] = [IdleCall EXCEPT !.pc = "done"]]
                /\ returned' = HitRecord("searchCondition", condition, NULL)
                /\ UNCHANGED <<cache, history, obtained>>
           ELSE LET s1 == StartSub(getFromCache(cache, key), "getAllArticles", NULL, NULL)
                    s2 == StartSub(s1.store, "getLawFirms", DefaultNull(condition), NULL)
                    s3 == StartSub(s2.store, "getSettlementData", condition, NULL)
                IN  SearchSettle(c, condition, <<s1.sub, s2.sub, s3.sub>>, s3.store,
                                 history, <<>>)
    /\ cleared' = FALSE
    /\ UNCHANGED <<env, googleSheets, hubspot, provider, now, pureIn, pureOut,
                 files, writers>>

\* Both adapters of the i-th sub-operation of the searchCondition call c have
\* resolved: the sub-operation stores and returns its result
ResolveSub(c, i) ==
    /\ calls[c].pc = "wait"
    /\ calls[c].op = "searchCondition"
    /\ i \in DOMAIN calls[c].subs
    /\ calls[c].subs[i].pc = "wait"
    /\ LET sub == calls[c].subs[i]
           key == CacheKey(sub.op, sub.a1, sub.a2)
       IN  \E sheetsVal \in SheetsOutcomes(sub.op, sub.a1, sub.a2),
              hubVal \in HubSpotOutcomes(sub.op, sub.a1, sub.a2),
              lastResolved \in {"google_sheets", "hubspot"} :
             IF AggregateThrows(sub.op, sub.a1, sub.a2,
                                PromiseAll(sheetsVal, hubVal, lastResolved))
             THEN SearchSettle(c, calls[c].a1,
                               [calls[c].subs EXCEPT ![i] =
                                   [sub EXCEPT !.pc = "done", !.threw = TRUE]],
                               cache, history, <<>>)
             ELSE
             \E res \in {Aggregate(sub.op, sub.a1, sub.a2,
                                   PromiseAll(sheetsVal, hubVal, lastResolved))} :
               SearchSettle(c, calls[c].a1,
                            [calls[c].subs EXCEPT ![i] =
                                [sub EXCEPT !.pc = "done", !.sheetsVal = sheetsVal,
                                            !.hubVal = hubVal, !.result = res,
                                            !.obtained = now]],
                            setCache(cache, key, res),
                            Remember(history, key, res),
                            key :> now)
    /\ UNCHANGED <<env, googleSheets, hubspot, provider, now, cleared, pureIn, pureOut,
                 files, writers>>

clearCache ==
    /\ cache' = <<>>
    /\ obtained' = <<>>
    /\ cleared' = TRUE
    /\ history' = {}
    /\ returned' = NoReturn
    /\ UNCHANGED <<env, googleSheets, hubspot, provider, now, calls, pureIn, pureOut,
                 files, writers>>

\* Time passes
Tick ==
    /\ now < MaxTicks * TickStep
    /\ now' = now + TickStep
    /\ history' = {h \in history : now' - h.at < cacheTimeout}
    /\ returned' = NoReturn
    /\ UNCHANGED <<env, googleSheets, hubspot, provider, cache, obtained, calls, cleared, pureIn, pureOut,
                 files, writers>>

\* Time passes, by a step that does not divide the validity interval
TickPast ==
    /\ now < MaxTicks * TickStep
    /\ now' = now + TickStep + 1
    /\ history' = {h \in history : now' - h.at < cacheTimeout}
    /\ returned' = NoReturn
    /\ UNCHANGED <<env, googleSheets, hubspot, provider, cache, obtained, calls, cleared, pureIn, pureOut,
                 files, writers>>

\* The writeFile operations that can be in progress at once
MaxWriters == 2
WriterIds == 1..MaxWriters

\* A writeFile slot not in use
IdleWriter == [pc |-> "idle"]

NoPure == [fn |-> "none"]

\* process.env, as far as the constructors read it
Envs == [GOOGLE_API_KEY : BOOLEAN, HUBSPOT_ACCESS_TOKEN : BOOLEAN]

\* new GoogleSheetsConnector(config) inside the constructor's try/catch: the
\* connector, or null when the constructor throws for want of an API key
GoogleSheetsConnector(e) == e.GOOGLE_API_KEY

\* new HubSpotInjuryInfoConnector(config) inside the constructor's try/catch:
\* the constructor stores the token, set or not, and never throws
HubSpotInjuryInfoConnector(e) == TRUE

\* The state after the constructor in a process with the environment e
constructor(e) ==
    /\ env = e
    /\ googleSheets = GoogleSheetsConnector(e)
    /\ hubspot = HubSpotInjuryInfoConnector(e)
    /\ provider \in Worlds
    /\ cache = <<>>
    /\ now = 0
    /\ calls = [c \in CallIds |-> IdleCall]
    /\ returned = NoReturn
    /\ cleared = FALSE
    /\ history = {}
    /\ pureIn = NoPure
    /\ pureOut = <<>>
    /\ files = <<>>
    /\ writers = [w \in WriterIds |-> IdleWriter]
    /\ obtained = <<>>

\* The state after the constructor, in a process that has the CRM token
Init == \E e \in {f \in Envs : f.HUBSPOT_ACCESS_TOKEN} : constructor(e)

\* Concurrent getAllArticles calls, clearCache and the passing of time
InitArticles == Init /\ provider \in {NoContent, MedicalWorld}

Next ==
    \/ \E c \in CallIds : Start(c, "getAllArticles", NULL, NULL)
    \/ \E c \in CallIds : Resolve(c)
    \/ clearCache
    \/ Tick

Spec == InitArticles /\ [][Next]_vars

\* getLawFirms calls, one at a time
InitFirms == Init /\ provider \in {NoContent, FirmsWorld}

NextFirms ==
    \/ /\ Quiet
       /\ \E c \in CallIds, specialty \in Specialties, location \in Locations :
            Start(c, "getLawFirms", specialty, location)
    \/ \E c \in CallIds : Resolve(c)
    \/ clearCache

SpecFirms == InitFirms /\ [][NextFirms]_vars

\* The four query operations, one client call at a time
InitSearch == Init /\ provider \in {NoContent, FullWorld}

NextSearch ==
    \/ /\ Quiet
       /\ \E c \in CallIds, condition \in Conditions : searchCondition(c, condition)
    \/ \E c \in CallIds, i \in 1..3 : ResolveSub(c, i)
    \/ /\ Quiet
       /\ \E c \in CallIds : Start(c, "getAllArticles", NULL, NULL)
    \/ /\ Quiet
       /\ \E c \in CallIds, condition \in Conditions :
            Start(c, "getLawFirms", condition, NULL)
    \/ /\ Quiet
       /\ \E c \in CallIds, condition \in Conditions :
            Start(c, "getSettlementData", condition, NULL)
    \/ \E c \in CallIds : Resolve(c)
    \/ clearCache

SpecSearch == InitSearch /\ [][NextSearch]_vars

-----------------------------------------------------------------------------
(* The age of the data behind a result: composite searches over cached parts *)

InitStale == Init /\ provider \in {NoContent, FullWorld}

NextStale ==
    \/ /\ Quiet
       /\ \E c \in CallIds : searchCondition(c, <<"r","o","u","n","d","u","p">>)
    \/ \E c \in CallIds, i \in 1..3 : ResolveSub(c, i)
    \/ /\ Quiet
       /\ \E c \in CallIds : Start(c, "getAllArticles", NULL, NULL)
    \/ \E c \in CallIds : Resolve(c)
    \/ Tick
    \/ TickPast

SpecStale == InitStale /\ [][NextStale]_vars

------------------------------------------------------------------------------
(* The pure merge helpers on bounded inputs *)

MaxLen == 3

\* The sequences over S of length at most n
SeqsUpTo(S, n) == UNION {[1..k -> S] : k \in 0..n}

PureArticles ==
    { [id |-> <<"s","1">>, title |-> <<"M","e","s","o","t","h","e","l","i","o","m","a"," ","G","u","i","d","e">>, source |-> "google_sheets"],
      [id |-> <<"h","1">>, title |-> <<"m","e","s","o","t","h","e","l","i","o","m","a"," ","g","u","i","d","e">>, source |-> "hubspot"],
      [id |-> <<"h","2">>, title |-> <<"R","o","u","n","d","u","p"," ","L","a","w","s","u","i","t">>, source |-> "hubspot"],
      [id |-> <<"s","2">>, title |-> <<"R","o","u","n","d","u","p"," ","L","a","w","s","u","i","t">>, source |-> "google_sheets"] }

PureSettlements ==
    { [condition |-> <<"a">>, state |-> st, settlementRange |-> range] :
        st \in {<<>>, <<"a","l","l">>, <<"T","X">>}, range \in {"", "$1 to $2"} }

InitPure == Init /\ ~googleSheets /\ provider = NoContent

mergeArticlesCall ==
    /\ pureIn = NoPure
    /\ \E A \in SeqsUpTo(PureArticles, MaxLen) :
         \E B \in SeqsUpTo(PureArticles, MaxLen - Len(A)) :
           /\ pureIn' = [fn |-> "mergeArticles", a |-> A, b |-> B]
           /\ pureOut' = mergeArticles(A, B)
    /\ UNCHANGED <<env, googleSheets, hubspot, provider, cache, obtained, now, calls, returned,
                   cleared, history, files, writers>>

mergeSettlementDataCall ==
    /\ pureIn = NoPure
    /\ \E A \in SeqsUpTo(PureSettlements, MaxLen) :
         \E B \in SeqsUpTo(PureSettlements, MaxLen - Len(A)) :
           /\ pureIn' = [fn |-> "mergeSettlementData", a |-> A, b |-> B]
           /\ pureOut' = mergeSettlementData(A, B)
    /\ UNCHANGED <<env, googleSheets, hubspot, provider, cache, obtained, now, calls, returned,
                   cleared, history, files, writers>>

\* The characters of the titles: letters of both cases, a digit, a hyphen and
\* other characters outside a-z0-9
SlugChars == {"A", "b", "1", "-", " ", "_"}

createSlugCall ==
    /\ pureIn = NoPure
    /\ \E text \in SeqsUpTo(SlugChars, MaxLen) :
         /\ pureIn' = [fn |-> "createSlug", text |-> text]
         /\ pureOut' = [slug |-> createSlug(text), again |-> createSlug(createSlug(text))]
    /\ UNCHANGED <<env, googleSheets, hubspot, provider, cache, obtained, now, calls, returned,
                   cleared, history, files, writers>>

NextPure ==
    \/ mergeArticlesCall
    \/ mergeSettlementDataCall
    \/ createSlugCall

SpecPure == InitPure /\ [][NextPure]_vars

-----------------------------------------------------------------------------
(* DataSourcesConnector: the file cache *)

\* Records the connector caches, and lists of them
RecallA == [product |-> "Drug A", reason |-> "Contamination", source |-> "FDA"]
RecallB == [product |-> "Drug B", reason |-> UndefinedText, source |-> "FDA"]
FileData == {<<RecallA>>, <<RecallA, RecallB>>}

FileKeys == {<<"f","d","a","_","r","e","c","a","l","l","s","_","a","l","l">>}
MaxAges == {TickStep, cacheTimeout}

\* What a cache read that finds nothing returns (null)
NotCached == [found |-> FALSE, data |-> <<>>]

\* The return value of getFromCache(key) on the in-memory Map
getFromCacheValue(store, key) ==
    IF CacheFresh(store, key)
    THEN [found |-> TRUE, data |-> store[key].data]
    ELSE NotCached

\* JSON.stringify of a record: properties whose value is undefined are left out
StringifyRecord(r) ==
    [f \in {g \in DOMAIN r : r[g] # UndefinedText} |-> r[f]]

\* JSON.stringify(cacheData, null, 2): the text of a complete document; its
\* length grows with the number of records
JSONstringify(cacheData) ==
    [kind |-> "json",
     timestamp |-> cacheData.timestamp,
     data |-> [i \in DOMAIN cacheData.data |-> StringifyRecord(cacheData.data[i])],
     length |-> 1 + Len(cacheData.data)]

\* A file opened with flag 'w' and not written yet
EmptyFile == [kind |-> "torn", timestamp |-> 0, data |-> <<>>, length |-> 0]

\* The file after a writer has written `text` from position 0 into a file
\* whose content is `old`: bytes of a longer old content stay behind the text
Overwrite(old, text) ==
    IF old.length > text.length
    THEN [kind |-> "torn", timestamp |-> 0, data |-> <<>>, length |-> old.length]
    ELSE text

\* Mutant: a document as old as maxAge is still served
getCachedDataInclusive(store, key, maxAge) ==
    IF key \notin DOMAIN store THEN NotCached
    ELSE IF store[key].kind # "json" THEN NotCached
    ELSE IF now - store[key].timestamp <= maxAge
    THEN [found |-> TRUE, data |-> store[key].data]
    ELSE NotCached

\* getCachedData(key, maxAge): readFile or JSON.parse throwing ends in the catch
getCachedData(store, key, maxAge) ==
    IF key \notin DOMAIN store THEN NotCached
    ELSE IF store[key].kind # "json" THEN NotCached
    ELSE IF now - store[key].timestamp < maxAge
    THEN [found |-> TRUE, data |-> store[key].data]
    ELSE NotCached

\* No writeFile is in progress
NoWriter == \A w \in WriterIds : writers[w].pc = "idle"

\* An entry of a cache tier as a read finds it
NoEntry == [exists |-> FALSE, timestamp |-> 0, data |-> <<>>]

\* getFromCache(key) called on the in-memory Map
getFromCacheCall(key) ==
    /\ returned' = [op |-> "getFromCache", key |-> key, ttl |-> cacheTimeout,
                    result |-> getFromCacheValue(cache, key),
                    entry |-> IF key \in DOMAIN cache
                              THEN [exists |-> TRUE,
                                    timestamp |-> cache[key].timestamp,
                                    data |-> cache[key].data]
                              ELSE NoEntry]
    /\ cache' = getFromCache(cache, key)
    /\ obtained' = Track(cache', <<>>)
    /\ UNCHANGED <<env, googleSheets, hubspot, provider, now, calls, cleared, history,
                   pureIn, pureOut, files, writers>>

\* setCache(key, data) called on the in-memory Map
setCacheCall(key, data) ==
    /\ cache' = setCache(cache, key, data)
    /\ obtained' = Track(cache', key :> now)
    /\ returned' = NoReturn
    /\ UNCHANGED <<env, googleSheets, hubspot, provider, now, calls, cleared, history,
                   pureIn, pureOut, files, writers>>

\* getCachedData(key, maxAge) of DataSourcesConnector
getCachedDataCall(key, maxAge) ==
    /\ returned' = [op |-> "getCachedData", key |-> key, ttl |-> maxAge,
                    result |-> getCachedData(files, key, maxAge),
                    entry |-> IF key \in DOMAIN files /\ files[key].kind = "json"
                              THEN [exists |-> TRUE,
                                    timestamp |-> files[key].timestamp,
                                    data |-> files[key].data]
                              ELSE NoEntry]
    /\ UNCHANGED <<env, googleSheets, hubspot, provider, cache, obtained, now, calls, cleared,
                   history, pureIn, pureOut, files, writers>>

\* setCachedData(key, data) up to its await: the document is built with the
\* current time and fs.writeFile is started.  The call takes the next unused slot.
setCachedData(w, key, data) ==
    /\ writers[w].pc = "idle"
    /\ \A v \in WriterIds : v < w => writers[v].pc # "idle"
    /\ writers' = [writers EXCEPT ![w] =
                      [pc |-> "open", key |-> key,
                       text |-> JSONstringify([timestamp |-> now, data |-> data])]]
    /\ returned' = NoReturn
    /\ UNCHANGED <<env, googleSheets, hubspot, provider, cache, obtained, now, calls, cleared,
                   history, pureIn, pureOut, files>>

\* fs.writeFile opens the file with flag 'w': the file is created or truncated
WriteFileOpen(w) ==
    /\ writers[w].pc = "open"
    /\ files' = [k \in DOMAIN files \cup {writers[w].key} |->
                    IF k = writers[w].key THEN EmptyFile ELSE files[k]]
    /\ writers' = [writers EXCEPT ![w].pc = "write"]
    /\ returned' = NoReturn
    /\ UNCHANGED <<env, googleSheets, hubspot, provider, cache, obtained, now, calls, cleared,
                   history, pureIn, pureOut>>

\* fs.writeFile writes the text and closes the file; setCachedData resolves
WriteFileWrite(w) ==
    /\ writers[w].pc = "write"
    /\ files' = [files EXCEPT ![writers[w].key] = Overwrite(@, writers[w].text)]
    /\ writers' = [writers EXCEPT ![w] = IdleWriter]
    /\ returned' = NoReturn
    /\ UNCHANGED <<env, googleSheets, hubspot, provider, cache, obtained, now, calls, cleared,
                   history, pureIn, pureOut>>

\* Reads of both cache tiers between writes, one write at a time, as time passes
InitCacheRead == Init /\ ~googleSheets /\ provider = NoContent

NextCacheRead ==
    \/ setCacheCall(CacheKey("getAllArticles", NULL, NULL), getFallbackArticles)
    \/ getFromCacheCall(CacheKey("getAllArticles", NULL, NULL))
    \/ /\ NoWriter
       /\ \E w \in WriterIds, key \in FileKeys, data \in FileData :
            setCachedData(w, key, data)
    \/ \E w \in WriterIds : WriteFileOpen(w)
    \/ \E w \in WriterIds : WriteFileWrite(w)
    \/ \E key \in FileKeys, maxAge \in MaxAges : getCachedDataCall(key, maxAge)
    \/ Tick

SpecCacheRead == InitCacheRead /\ [][NextCacheRead]_vars

-----------------------------------------------------------------------------
(* Concurrent writes of one cache file: several setCachedData calls in flight *)

InitCacheWrite == Init /\ ~googleSheets /\ provider = NoContent

NextCacheWrite ==
    \/ \E w \in WriterIds, key \in FileKeys, data \in FileData :
            setCachedData(w, key, data)
    \/ \E w \in WriterIds : WriteFileOpen(w)
    \/ \E w \in WriterIds : WriteFileWrite(w)
    \/ \E key \in FileKeys, maxAge \in MaxAges : getCachedDataCall(key, maxAge)
    \/ Tick

SpecCacheWrite == InitCacheWrite /\ [][NextCacheWrite]_vars

-----------------------------------------------------------------------------
(* Cache keys: getLawFirms calls whose arguments contain the key separator or
   spell the text of an absent argument *)

KeySpecialties == {NULL, <<"n","u","l","l">>, <<"a","_","b">>, <<"a">>}
KeyLocations == {NULL, <<"c">>, <<"b","_","c">>}

InitKeys == Init /\ provider \in {NoContent, FirmsWorld}

NextKeys ==
    \/ /\ Quiet
       /\ \E c \in CallIds, specialty \in KeySpecialties, location \in KeyLocations :
            Start(c, "getLawFirms", specialty, location)
    \/ \E c \in CallIds : Resolve(c)

SpecKeys == InitKeys /\ [][NextKeys]_vars

-----------------------------------------------------------------------------
(* Article slugs: sheets whose rows have names that differ in punctuation *)

InitSlugs == Init /\ provider \in {NoContent, MedicalWorld, CasesWorld, PunctuationWorld}

NextSlugs ==
    \/ \E c \in CallIds : Start(c, "getAllArticles", NULL, NULL)
    \/ \E c \in CallIds : Resolve(c)
    \/ clearCache

SpecSlugs == InitSlugs /\ [][NextSlugs]_vars

-----------------------------------------------------------------------------
(* Record ids: sheets whose rows omit or repeat the ID *)

InitIds == Init /\ provider \in {NoContent, FullWorld, UnnumberedWorld, RepeatWorld}

NextIds ==
    \/ /\ Quiet
       /\ \E c \in CallIds : Start(c, "getAllArticles", NULL, NULL)
    \/ /\ Quiet
       /\ \E c \in CallIds, specialty \in Specialties :
            Start(c, "getLawFirms", specialty, NULL)
    \/ \E c \in CallIds : Resolve(c)

SpecIds == InitIds /\ [][NextIds]_vars

-----------------------------------------------------------------------------
(* Missing credentials: the query operations in a process that lacks the API
   key of the spreadsheet, the token of the CRM, or both *)

InitCredentials ==
    /\ \E e \in {f \in Envs : f.GOOGLE_API_KEY \/ f.HUBSPOT_ACCESS_TOKEN} : constructor(e)
    /\ provider \in {NoContent, FullWorld, FirmsWorld}

NextCredentials ==
    \/ /\ Quiet
       /\ \E c \in CallIds : Start(c, "getAllArticles", NULL, NULL)
    \/ /\ Quiet
       /\ \E c \in CallIds, specialty \in Specialties :
            Start(c, "getLawFirms", specialty, NULL)
    \/ /\ Quiet
       /\ \E c \in CallIds, condition \in Conditions :
            Start(c, "getSettlementData", condition, NULL)
    \/ \E c \in CallIds : Resolve(c)

SpecCredentials == InitCredentials /\ [][NextCredentials]_vars

-----------------------------------------------------------------------------
(* The provider connectors: GoogleSheetsConnector and HubSpotInjuryInfoConnector,
   each operation on the response its request receives *)

MaxRows == 2
MaxLimit == 2

\* Header rows: distinct names, and one name on two columns
SheetHeaders ==
    { <<<<"N","a","m","e">>, <<"S","t","a","t","e">>>>, <<<<"N","o","t","e">>, <<"N","o","t","e">>>> }

\* Rows of cells; a row may be shorter than the header row
SheetCells ==
    { <<<<"A","n","n">>, <<"O","H">>>>, <<<<"B","o">>, <<"o","h">>>>, <<<<"O","h","m">>>> }

\* The `values` of a response: none, or a header row and up to MaxRows rows
SheetValues ==
    {<<>>} \cup {<<h>> \o rows : h \in SheetHeaders, rows \in SeqsUpTo(SheetCells, MaxRows)}

\* What fet<<"u","r","l">> and response.json() yield: a response that is OK with the
\* values of the sheet, or one that is not OK (an unknown sheet name, a
\* refused key), or no response at all (the network or the parsing failed)
SheetResponses ==
    {[failed |-> TRUE, ok |-> FALSE, values |-> <<>>],
     [failed |-> FALSE, ok |-> FALSE, values |-> <<>>]}
    \cup {[failed |-> FALSE, ok |-> TRUE, values |-> v] : v \in SheetValues}

\* The result of an operation that threw
Raised == [kind |-> "throw"]

\* makeRequest(endpoint): throws when fetch or json() throws and when the
\* response is not OK
makeRequest(response) ==
    IF response.failed \/ ~response.ok THEN Raised
    ELSE [kind |-> "object", values |-> response.values]

\* The index of the last header equal to h
LastIndexOf(headers, h) ==
    CHOOSE k \in DOMAIN headers :
        headers[k] = h /\ \A j \in DOMAIN headers : headers[j] = h => j <= k

\* headers.forEach((header, index) => obj[header] = row[index] || '')
RowObject(headers, row) ==
    [h \in {headers[k] : k \in DOMAIN headers} |->
        IF LastIndexOf(headers, h) <= Len(row) THEN row[LastIndexOf(headers, h)] ELSE <<>>]

\* readSheet(sheetName) on the response of its request
readSheet(response) ==
    IF makeRequest(response).kind = "throw" THEN Raised
    ELSE LET values == makeRequest(response).values
         IN  IF Len(values) = 0
             THEN [kind |-> "object", headers |-> <<>>, data |-> <<>>]
             ELSE [kind |-> "object", headers |-> Head(values),
                   data |-> [i \in DOMAIN Tail(values) |->
                                RowObject(Head(values), Tail(values)[i])]]

\* headers.findIndex(h => h.toLowerCase() === column.toLowerCase()), from 1;
\* 0 when there is none
findIndex(headers, column) ==
    IF \E k \in DOMAIN headers : toLowerCase(headers[k]) = toLowerCase(column)
    THEN CHOOSE k \in DOMAIN headers :
            /\ toLowerCase(headers[k]) = toLowerCase(column)
            /\ \A j \in 1..(k - 1) : toLowerCase(headers[j]) # toLowerCase(column)
    ELSE 0

\* Array.prototype.slice(0, limit) for limit >= 0
slice(list, limit) == SubSeq(list, 1, IF limit < Len(list) THEN limit ELSE Len(list))

\* searchSheet(sheetName, query, column, limit) on the response of its request
searchSheet(response, query, column, limit) ==
    LET sheet == readSheet(response)
    IN  IF sheet.kind = "throw" THEN Raised
        ELSE IF Len(sheet.data) = 0
        THEN [kind |-> "object", results |-> <<>>, total |-> 0]
        ELSE LET searchQuery == toLowerCase(query)
                 columnIndex == findIndex(sheet.headers, column)
                 InColumn(row) ==
                     includes(toLowerCase(row[sheet.headers[columnIndex]]), searchQuery)
                 InSomeColumn(row) ==
                     \E h \in DOMAIN row : includes(toLowerCase(row[h]), searchQuery)
             IN  IF Truthy(column) /\ columnIndex = 0 THEN Raised
                 ELSE LET filteredData == IF Truthy(column)
                                          THEN SelectSeq(sheet.data, InColumn)
                                          ELSE SelectSeq(sheet.data, InSomeColumn)
                      IN  [kind |-> "object",
                           results |-> slice(filteredData, limit),
                           total |-> Len(filteredData)]

\* A settlement_data object and a timeline page of the CRM
SettlementObject ==
    [condition_name |-> <<"r","o","u","n","d","u","p">>,
     base_settlement_min |-> <<"5","0","0","0","0">>, base_settlement_max |-> <<"2","5","0","0","0","0">>]

TimelinePage == [url |-> "https://example.com/timeline"]

\* What the request of a CRM operation receives: the results of an OK
\* response, a response that is not OK, or no response at all
HubSpotResponses(results) ==
    {[failed |-> TRUE, ok |-> FALSE, results |-> <<>>],
     [failed |-> FALSE, ok |-> FALSE, results |-> <<>>]}
    \cup {[failed |-> FALSE, ok |-> TRUE, results |-> r] : r \in results}

Digits == <<"0","1","2","3","4","5","6","7","8","9">>

\* parseInt of a string of decimal digits
RECURSIVE parseInt(_)
parseInt(s) ==
    IF s = <<>> THEN 0
    ELSE 10 * parseInt(SubSeq(s, 1, Len(s) - 1))
         + (CHOOSE d \in 0..9 : Digits[d + 1] = s[Len(s)])

\* searchDiseases(query, category, limit): throws when the request fails or
\* the response is not OK
searchDiseases(response) ==
    IF response.failed \/ ~response.ok THEN Raised
    ELSE [kind |-> "array", value |-> response.results]

\* findLawFirms(specialty, location, limit): a response that is not OK has no
\* results, data.results.map throws; every error is thrown again
findLawFirms(response) ==
    IF response.failed \/ ~response.ok THEN Raised
    ELSE [kind |-> "array",
          value |-> [i \in DOMAIN response.results |->
                        mapCompanyToFirm(response.results[i])]]

\* getDefaultSettlementRanges(condition)
getDefaultSettlementRanges(condition) ==
    LET ranges == (<<"m","e","s","o","t","h","e","l","i","o","m","a">> :> [min |-> 1200000, max |-> 2400000])
               @@ (<<"s","i","l","i","c","o","s","i","s">> :> [min |-> 500000, max |-> 1500000])
               @@ (<<"a","s","b","e","s","t","o","s","i","s">> :> [min |-> 300000, max |-> 800000])
    IN  IF toLowerCase(condition) \in DOMAIN ranges THEN ranges[toLowerCase(condition)]
        ELSE [min |-> 100000, max |-> 500000]

\* The connector's getSettlementData(condition, state): the first result, or
\* the default ranges when there is none and when anything throws (the
\* multipliers of the result are left out)
getSettlementData(condition, response) ==
    IF response.failed \/ ~response.ok
    THEN [kind |-> "object", value |-> getDefaultSettlementRanges(condition)]
    ELSE IF Len(response.results) > 0
    THEN [kind |-> "object",
          value |-> [min |-> parseInt(response.results[1].base_settlement_min),
                     max |-> parseInt(response.results[1].base_settlement_max)]]
    ELSE [kind |-> "object", value |-> getDefaultSettlementRanges(condition)]

\* getDefaultLegalTimeline(state, injuryType), without its fixed timeline
getDefaultLegalTimeline(state, injuryType) ==
    [state |-> state, injuryType |-> injuryType,
     statuteOfLimitations |-> [personal |-> 2, discovery |-> 1],
     sourceUrl |-> UndefinedText]

\* extractStatuteFromContent(content, state)
extractStatuteFromContent(state) ==
    LET statutes == (<<"c","a","l","i","f","o","r","n","i","a">> :> [personal |-> 2, discovery |-> 1])
                 @@ (<<"n","e","w"," ","y","o","r","k">> :> [personal |-> 3, discovery |-> 3])
                 @@ (<<"t","e","x","a","s">> :> [personal |-> 2, discovery |-> 2])
                 @@ (<<"f","l","o","r","i","d","a">> :> [personal |-> 4, discovery |-> 2])
    IN  IF toLowerCase(state) \in DOMAIN statutes THEN statutes[toLowerCase(state)]
        ELSE [personal |-> 2, discovery |-> 1]

\* getLegalTimeline(state, injuryType): the first page found, or the default
\* timeline when there is none and when anything throws
getLegalTimeline(state, injuryType, response) ==
    IF response.failed \/ ~response.ok
    THEN [kind |-> "object", value |-> getDefaultLegalTimeline(state, injuryType)]
    ELSE IF Len(response.results) > 0
    THEN [kind |-> "object",
          value |-> [state |-> state, injuryType |-> injuryType,
                     statuteOfLimitations |-> extractStatuteFromContent(state),
                     sourceUrl |-> response.results[1].url]]
    ELSE [kind |-> "object", value |-> getDefaultLegalTimeline(state, injuryType)]

\* The arguments of the connector calls
Queries == {<<>>, <<"o","h">>, <<"O">>, <<"x">>}
Columns == {NULL, <<"s","t","a","t","e">>, <<"N","o","t","e">>, <<"Z","i","p">>}
States == {<<"T","e","x","a","s">>, <<"O","h","i","o">>}

\* One call of a connector operation: its arguments and the response of its
\* request in pureIn, what it returns or that it threw in pureOut
readSheetCall ==
    /\ pureIn = NoPure
    /\ \E response \in SheetResponses :
         /\ pureIn' = [fn |-> "readSheet", response |-> response]
         /\ pureOut' = readSheet(response)
    /\ UNCHANGED <<env, googleSheets, hubspot, provider, cache, obtained, now, calls, returned,
                   cleared, history, files, writers>>

searchSheetCall ==
    /\ pureIn = NoPure
    /\ \E response \in SheetResponses, query \in Queries, column \in Columns,
          limit \in 0..MaxLimit :
         /\ pureIn' = [fn |-> "searchSheet", response |-> response, query |-> query,
                       column |-> column, limit |-> limit]
         /\ pureOut' = searchSheet(response, query, column, limit)
    /\ UNCHANGED <<env, googleSheets, hubspot, provider, cache, obtained, now, calls, returned,
                   cleared, history, files, writers>>

searchDiseasesCall ==
    /\ pureIn = NoPure
    /\ \E response \in HubSpotResponses({<<>>, <<DiseaseMeso>>, <<DiseaseMeso, DiseaseRoundup>>}) :
         /\ pureIn' = [fn |-> "searchDiseases", response |-> response]
         /\ pureOut' = searchDiseases(response)
    /\ UNCHANGED <<env, googleSheets, hubspot, provider, cache, obtained, now, calls, returned,
                   cleared, history, files, writers>>

findLawFirmsCall ==
    /\ pureIn = NoPure
    /\ \E response \in HubSpotResponses({<<>>, <<CompanyLoneStar>>}) :
         /\ pureIn' = [fn |-> "findLawFirms", response |-> response]
         /\ pureOut' = findLawFirms(response)
    /\ UNCHANGED <<env, googleSheets, hubspot, provider, cache, obtained, now, calls, returned,
                   cleared, history, files, writers>>

getSettlementDataCall ==
    /\ pureIn = NoPure
    /\ \E response \in HubSpotResponses({<<>>, <<SettlementObject>>}),
          condition \in Conditions \cup {<<"S","i","l","i","c","o","s","i","s">>} :
         /\ pureIn' = [fn |-> "getSettlementData", response |-> response,
                       condition |-> condition]
         /\ pureOut' = getSettlementData(condition, response)
    /\ UNCHANGED <<env, googleSheets, hubspot, provider, cache, obtained, now, calls, returned,
                   cleared, history, files, writers>>

getLegalTimelineCall ==
    /\ pureIn = NoPure
    /\ \E response \in HubSpotResponses({<<>>, <<TimelinePage>>}),
          state \in States, injuryType \in Conditions :
         /\ pureIn' = [fn |-> "getLegalTimeline", response |-> response,
                       state |-> state, injuryType |-> injuryType]
         /\ pureOut' = getLegalTimeline(state, injuryType, response)
    /\ UNCHANGED <<env, googleSheets, hubspot, provider, cache, obtained, now, calls, returned,
                   cleared, history, files, writers>>

InitConnectors == Init /\ googleSheets /\ provider = NoContent

NextConnectors ==
    \/ readSheetCall
    \/ searchSheetCall
    \/ searchDiseasesCall
    \/ findLawFirmsCall
    \/ getSettlementDataCall
    \/ getLegalTimelineCall

SpecConnectors == InitConnectors /\ [][NextConnectors]_vars

-----------------------------------------------------------------------------
(* DataSourcesConnector: the operations over the file cache *)

\* Records of the FDA enforcement API, as far as the mapping reads them (the
\* date, firm and classification fields are copied the same way)
RawRecallA == [product_description |-> "Drug A", reason_for_recall |-> "Contamination"]
RawRecallB == [product_description |-> "Drug B", reason_for_recall |-> UndefinedText]

\* What the FDA request yields: fetch or json() rejects, or the parsed body
FDAResponses ==
    {[ok |-> FALSE, results |-> <<>>]}
    \cup {[ok |-> TRUE, results |-> rs] :
            rs \in {<<RawRecallA>>, <<RawRecallA, RawRecallB>>}}

\* Records of the court API
RawCaseA == [case_number |-> "CV-1", case_title |-> "Doe v. Acme"]
RawCaseB == [case_number |-> "CV-2", case_title |-> "Roe v. Acme"]

CourtResponses ==
    {[ok |-> FALSE, cases |-> <<>>]}
    \cup {[ok |-> TRUE, cases |-> cs] : cs \in {<<RawCaseA>>, <<RawCaseA, RawCaseB>>}}

\* The arguments the clients pass
Products == {NULL, <<"t","a","l","c">>}
CaseTypes == {NULL, <<>>, <<"t","a","l","c">>}
CourtStates == {<<"c","a","l","i","f","o","r","n","i","a">>}
Limits == 1..MaxLimit

\* limit = 10 of the parameter lists
DefaultLimit == 10

\* The maxAge the operations pass to getCachedData
recallsMaxAge == 1800000
casesMaxAge == 3600000

\* The cache directory when fs.writeFile runs: the constructor starts mkdir
\* without awaiting it and ensureCacheDir swallows its failure
CacheDirs == {"exists", "missing"}

\* What an operation returns, the files it leaves, and what it did
Outcome(result, store, hit, reqs, fetched) ==
    [result |-> result, files |-> store, hit |-> hit, reqs |-> reqs, fetched |-> fetched]

\* `fda_recalls_${product || 'all'}`
recallsCacheKey(product) ==
    <<"f","d","a","_","r","e","c","a","l","l","s","_">>
        \o (IF Truthy(product) THEN product ELSE <<"a","l","l">>)

\* `court_cases_${state}_${caseType || 'all'}`
casesCacheKey(state, caseType) ==
    <<"c","o","u","r","t","_","c","a","s","e","s","_">> \o TemplateStr(state) \o <<"_">>
        \o (IF Truthy(caseType) THEN caseType ELSE <<"a","l","l">>)

\* setCachedData(key, data) run to its end with no other writer: the files
\* after it, or that fs.writeFile rejected
writeCache(store, key, data, dir) ==
    IF dir = "missing" THEN Raised
    ELSE [kind |-> "object",
          files |-> [k \in DOMAIN store \cup {key} |->
                        IF k = key THEN JSONstringify([timestamp |-> now, data |-> data])
                        ELSE store[k]]]

\* getFDARecalls(product, limit) on the files `store`, with the response of its
\* request and the state of the cache directory
getFDARecalls(store, product, limit, response, dir) ==
    LET cacheKey == recallsCacheKey(product)
        cached == getCachedData(store, cacheKey, recallsMaxAge)
        recalls == slice([i \in DOMAIN response.results |->
                             [product |-> response.results[i].product_description,
                              reason |-> response.results[i].reason_for_recall,
                              source |-> "FDA"]], limit)
        written == writeCache(store, cacheKey, recalls, dir)
    IN  IF cached.found THEN Outcome(cached.data, store, TRUE, 0, <<>>)
        ELSE IF ~response.ok THEN Outcome(<<>>, store, FALSE, 1, <<>>)
        ELSE IF written.kind = "throw" THEN Outcome(<<>>, store, FALSE, 1, recalls)
        ELSE Outcome(recalls, written.files, FALSE, 1, recalls)

\* getCourtCases(state, caseType, limit): url is declared const, so the
\* `url += ...` under `if (caseType)` throws a TypeError into the catch
getCourtCases(store, state, caseType, limit, response, dir) ==
    LET cacheKey == casesCacheKey(state, caseType)
        cached == getCachedData(store, cacheKey, casesMaxAge)
        cases == [i \in DOMAIN response.cases |->
                     [caseNumber |-> response.cases[i].case_number,
                      title |-> response.cases[i].case_title,
                      source |-> state \o <<" ","C","o","u","r","t","s">>]]
        written == writeCache(store, cacheKey, cases, dir)
    IN  IF cached.found THEN Outcome(cached.data, store, TRUE, 0, <<>>)
        ELSE IF Truthy(caseType) THEN Outcome(<<>>, store, FALSE, 0, <<>>)
        ELSE IF ~response.ok THEN Outcome(<<>>, store, FALSE, 1, <<>>)
        ELSE IF written.kind = "throw" THEN Outcome(<<>>, store, FALSE, 1, cases)
        ELSE Outcome(cases, written.files, FALSE, 1, cases)

\* The loop of getComprehensiveData(query, sources) from the files `store`:
\* results maps each source handled to what its operation returned
RECURSIVE getComprehensiveData(_, _, _, _, _, _)
getComprehensiveData(store, query, sources, responses, dir, results) ==
    IF sources = <<>> THEN [results |-> results, files |-> store]
    ELSE LET source == Head(sources)
             run == IF source = "fda"
                    THEN getFDARecalls(store, query, DefaultLimit, responses.fda, dir)
                    ELSE getCourtCases(store, <<"c","a","l","i","f","o","r","n","i","a">>, query,
                                       DefaultLimit, responses.courts, dir)
         IN  getComprehensiveData(run.files, query, Tail(sources), responses, dir,
                                  [s \in DOMAIN results \cup {source} |->
                                      IF s = source THEN run.result ELSE results[s]])

SourceLists == {<<"fda">>, <<"courts">>, <<"fda", "courts">>}

getFDARecallsCall ==
    /\ NoWriter
    /\ \E product \in Products, limit \in Limits,
          response \in FDAResponses, dir \in CacheDirs :
         \E run \in {getFDARecalls(files, product, limit, response, dir)} :
           /\ files' = run.files
           /\ returned' = [op |-> "getFDARecalls", a1 |-> product, a2 |-> NULL,
                           limit |-> limit, response |-> response, dir |-> dir,
                           hit |-> run.hit, reqs |-> run.reqs, fetched |-> run.fetched,
                           result |-> run.result]
    /\ UNCHANGED <<env, googleSheets, hubspot, provider, cache, obtained, now, calls, cleared,
                   history, pureIn, pureOut, writers>>

getCourtCasesCall ==
    /\ NoWriter
    /\ \E state \in CourtStates, caseType \in CaseTypes, limit \in Limits,
          response \in CourtResponses, dir \in CacheDirs :
         \E run \in {getCourtCases(files, state, caseType, limit, response, dir)} :
           /\ files' = run.files
           /\ returned' = [op |-> "getCourtCases", a1 |-> state, a2 |-> caseType,
                           limit |-> limit, response |-> response, dir |-> dir,
                           hit |-> run.hit, reqs |-> run.reqs, fetched |-> run.fetched,
                           result |-> run.result]
    /\ UNCHANGED <<env, googleSheets, hubspot, provider, cache, obtained, now, calls, cleared,
                   history, pureIn, pureOut, writers>>

getComprehensiveDataCall ==
    /\ NoWriter
    /\ \E query \in Products, sources \in SourceLists, dir \in CacheDirs,
          fda \in FDAResponses, courts \in CourtResponses :
         \E run \in {getComprehensiveData(files, query, sources,
                                          [fda |-> fda, courts |-> courts], dir, <<>>)} :
           /\ files' = run.files
           /\ returned' = [op |-> "getComprehensiveData", a1 |-> query, a2 |-> NULL,
                           sources |-> sources,
                           response |-> [fda |-> fda, courts |-> courts], dir |-> dir,
                           result |-> run.results]
    /\ UNCHANGED <<env, googleSheets, hubspot, provider, cache, obtained, now, calls, cleared,
                   history, pureIn, pureOut, writers>>

InitSources == Init /\ ~googleSheets /\ provider = NoContent

NextSources ==
    \/ getFDARecallsCall
    \/ getCourtCasesCall
    \/ getComprehensiveDataCall

SpecSources == InitSources /\ [][NextSources]_vars

-----------------------------------------------------------------------------
(* Usage errors: the operations called without their condition *)

InitUsage == Init /\ provider \in {NoContent, FullWorld}

NextUsage ==
    \/ /\ Quiet
       /\ \E c \in CallIds, condition \in {UNDEFINED, <<"r","o","u","n","d","u","p">>} :
            searchCondition(c, condition)
    \/ \E c \in CallIds, i \in 1..3 : ResolveSub(c, i)
    \/ /\ Quiet
       /\ \E c \in CallIds, condition \in {UNDEFINED, <<"r","o","u","n","d","u","p">>} :
            Start(c, "getSettlementData", condition, NULL)
    \/ \E c \in CallIds : Resolve(c)

SpecUsage == InitUsage /\ [][NextUsage]_vars

-----------------------------------------------------------------------------
(* Settlement data: conditions with and without a built-in default, and the
   name of a property every object inherits *)

SettlementConditions ==
    { <<"r","o","u","n","d","u","p">>,
      <<"M","e","s","o","t","h","e","l","i","o","m","a">>,
      <<"c","o","n","s","t","r","u","c","t","o","r">> }

SettlementStates == {NULL, <<"T","X">>}

InitSettlement == Init /\ provider \in {NoContent, FullWorld}

NextSettlement ==
    \/ /\ Quiet
       /\ \E c \in CallIds, condition \in SettlementConditions, state \in SettlementStates :
            Start(c, "getSettlementData", condition, state)
    \/ \E c \in CallIds : Resolve(c)
    \/ clearCache

SpecSettlement == InitSettlement /\ [][NextSettlement]_vars

-----------------------------------------------------------------------------
(* Adapter isolation: the article and law firm operations, one call at a time,
   and the spreadsheet article adapter on its own *)

InitIsolation ==
    Init /\ googleSheets /\ provider \in {MedicalWorld, CasesWorld, FirmsWorld}

\* getArticlesFromGoogleSheets alone, over the reads that answer and that throw
getArticlesFromGoogleSheetsCall ==
    /\ pureIn = NoPure
    /\ \A c \in CallIds : calls[c].pc = "idle"
    /\ \E ok \in [DOMAIN SheetsToRead("getAllArticles") -> BOOLEAN] :
         /\ pureIn' = [fn |-> "getArticlesFromGoogleSheets", ok |-> ok]
         /\ pureOut' = getArticlesFromGoogleSheets(ok)
    /\ UNCHANGED <<env, googleSheets, hubspot, provider, cache, obtained, now, calls, returned,
                   cleared, history, files, writers>>

NextIsolation ==
    \/ /\ Quiet
       /\ pureIn = NoPure
       /\ \E c \in CallIds : Start(c, "getAllArticles", NULL, NULL)
    \/ /\ Quiet
       /\ pureIn = NoPure
       /\ \E c \in CallIds, specialty \in Specialties, location \in Locations :
            Start(c, "getLawFirms", specialty, location)
    \/ \E c \in CallIds : Resolve(c)
    \/ getArticlesFromGoogleSheetsCall

SpecIsolation == InitIsolation /\ [][NextIsolation]_vars

-----------------------------------------------------------------------------
(* Properties *)

\* C1: a getAllArticles call that fans out on an empty cache and gets no record
\* from either adapter (the providers are empty, their requests throw, or the
\* spreadsheet connector was never constructed) returns the built-in fallback
\* article list, which is non-empty and tagged source = fallback throughout.
FallbackArticlesWhenAdaptersYieldNothing ==
    (/\ returned.op = "getAllArticles"
     /\ ~returned.hit
     /\ returned.sheetsVal = <<>>
     /\ returned.hubVal = <<>>)
    => /\ returned.result = getFallbackArticles
       /\ Len(returned.result) > 0
       /\ \A i \in DOMAIN returned.result : returned.result[i].source = "fallback"

\* The CRM holds articles and its request threw while the spreadsheet
\* connector was never constructed: the call returned the fallback list
FallbackArticlesReturned ==
    /\ returned.op = "getAllArticles"
    /\ ~returned.hit
    /\ ~googleSheets
    /\ provider = MedicalWorld
    /\ returned.sheetsVal = <<>>
    /\ returned.hubVal = <<>>
    /\ returned.result = getFallbackArticles

\* C2 as stated: a getAllArticles call made after an earlier one has completed,
\* within the ttl of that completion and with no clearCache() in between,
\* issues no provider request and returns the result of the earlier call.
SecondCallReturnsFirstResult ==
    (returned.op = "getAllArticles" /\ returned.prev # {})
    => /\ returned.hit
       /\ returned.reqs = 0
       /\ returned.prev = {returned.result}

\* C2 amended: such a call issues no provider request, and it returns the
\* result of the earlier call provided that no other aggregation has stored a
\* result for the key since the earlier call completed.
SecondCallHitsAndReturnsFirstResultIfNotOverwritten ==
    (returned.op = "getAllArticles" /\ returned.prev # {})
    => /\ returned.hit
       /\ returned.reqs = 0
       /\ returned.prevQuiet # {} => returned.prevQuiet = {returned.result}

\* A second call, at a later time within the ttl, answered with the result of
\* the first
SecondCallAnsweredFromCache ==
    /\ returned.op = "getAllArticles"
    /\ returned.hit
    /\ now > 0
    /\ returned.prevQuiet = {returned.result}
    /\ returned.result # getFallbackArticles

\* C3: the first query call after clearCache() is not answered from the cache.
FirstCallAfterClearMisses ==
    (returned.op # "none" /\ returned.afterClear) => ~returned.hit

\* C4: when the two adapters of getAllArticles return articles with the same
\* lower-cased title, the result holds exactly one article with that title and
\* it is the spreadsheet adapter's, whichever adapter resolved last.
SpreadsheetArticleWinsCollision ==
    (returned.op = "getAllArticles" /\ ~returned.hit)
    => \A i \in DOMAIN returned.sheetsVal, j \in DOMAIN returned.hubVal :
         toLowerCase(returned.sheetsVal[i].title) = toLowerCase(returned.hubVal[j].title)
         => LET same == {k \in DOMAIN returned.result :
                            toLowerCase(returned.result[k].title) =
                                toLowerCase(returned.sheetsVal[i].title)}
            IN  /\ Cardinality(same) = 1
                /\ \A k \in same : returned.result[k].source = "google_sheets"
                /\ \A k \in same : \E m \in DOMAIN returned.sheetsVal :
                       returned.result[k] = returned.sheetsVal[m]

\* The CRM adapter resolved first and both adapters returned the same title
CollisionWithCrmResolvedFirst ==
    /\ returned.op = "getAllArticles"
    /\ ~returned.hit
    /\ returned.lastResolved = "google_sheets"
    /\ \E i \in DOMAIN returned.sheetsVal, j \in DOMAIN returned.hubVal :
         /\ toLowerCase(returned.sheetsVal[i].title) = toLowerCase(returned.hubVal[j].title)
         /\ returned.sheetsVal[i].title # returned.hubVal[j].title

\* C5: mergeArticles(A, B) is the list of the first occurrences of each
\* lower-cased title in A followed by B, in the order of that concatenation.
MergeArticlesKeepsFirstOccurrences ==
    pureIn.fn = "mergeArticles"
    => LET cat == pureIn.a \o pureIn.b
           keep == {i \in DOMAIN cat :
                       \A j \in 1..(i - 1) :
                           toLowerCase(cat[j].title) # toLowerCase(cat[i].title)}
       IN  /\ Len(pureOut) = Cardinality(keep)
           /\ \A k \in DOMAIN pureOut :
                \E i \in keep : /\ Cardinality({j \in keep : j < i}) = k - 1
                                /\ pureOut[k] = cat[i]

\* A = [Mesothelioma Guide], B = [mesothelioma guide, Roundup Lawsuit] gave two
\* records, the Mesothelioma one from A
MergeArticlesExample ==
    /\ pureIn.fn = "mergeArticles"
    /\ Len(pureIn.a) = 1
    /\ Len(pureIn.b) = 2
    /\ pureIn.a[1].title = <<"M","e","s","o","t","h","e","l","i","o","m","a"," ","G","u","i","d","e">>
    /\ pureIn.b[1].title = <<"m","e","s","o","t","h","e","l","i","o","m","a"," ","g","u","i","d","e">>
    /\ pureIn.b[2].title = <<"R","o","u","n","d","u","p"," ","L","a","w","s","u","i","t">>
    /\ Len(pureOut) = 2
    /\ pureOut[1] = pureIn.a[1]
    /\ pureOut[2] = pureIn.b[2]

\* C6: mergeSettlementData returns exactly one record per (condition, state)
\* pair of its input, and a pair for which some input record has a non-empty
\* settlementRange gets a record with a non-empty settlementRange.
OneRecordPerConditionAndState ==
    pureIn.fn = "mergeSettlementData"
    => LET items == pureIn.a \o pureIn.b
           pairs == {<<items[i].condition, items[i].state>> : i \in DOMAIN items}
       IN  /\ Len(pureOut) = Cardinality(pairs)
           /\ \A p \in pairs :
                /\ Cardinality({k \in DOMAIN pureOut :
                       <<pureOut[k].condition, pureOut[k].state>> = p}) = 1
                /\ (\E i \in DOMAIN items :
                       /\ <<items[i].condition, items[i].state>> = p
                       /\ TruthyText(items[i].settlementRange))
                   => \E k \in DOMAIN pureOut :
                       /\ <<pureOut[k].condition, pureOut[k].state>> = p
                       /\ TruthyText(pureOut[k].settlementRange)

\* C7: a getLawFirms call that gets no firm from either adapter returns a
\* non-empty list of records tagged source = fallback.
FallbackFirmsNeverEmpty ==
    (/\ returned.op = "getLawFirms"
     /\ ~returned.hit
     /\ returned.sheetsVal = <<>>
     /\ returned.hubVal = <<>>)
    => /\ returned.result # <<>>
       /\ \A i \in DOMAIN returned.result : returned.result[i].source = "fallback"

\* C8: a getLawFirms(specialty, location) call that gets no firm from either
\* adapter returns the fallback firms one of whose specialties contains
\* specialty case-insensitively, all of them when specialty is absent; location
\* plays no part.
FallbackFirmsFilteredBySpecialtyOnly ==
    (/\ returned.op = "getLawFirms"
     /\ ~returned.hit
     /\ returned.sheetsVal = <<>>
     /\ returned.hubVal = <<>>)
    => returned.result =
         SelectSeq(getFallbackLawFirms,
                   LAMBDA firm :
                       \/ returned.a1 = NULL
                       \/ \E i \in DOMAIN firm.specialties :
                            includes(toLowerCase(firm.specialties[i]),
                                     toLowerCase(returned.a1)))

\* getLawFirms('roundup', 'Utah') got no firm from the adapters and returned
\* the one fallback firm with the specialty "Roundup", which is not in Utah
FallbackFirmForRoundupInUtah ==
    /\ returned.op = "getLawFirms"
    /\ ~returned.hit
    /\ googleSheets
    /\ provider = FirmsWorld
    /\ returned.a1 = <<"r","o","u","n","d","u","p">>
    /\ returned.a2 = <<"U","t","a","h">>
    /\ returned.sheetsVal = <<>>
    /\ returned.hubVal = <<>>
    /\ Len(returned.result) = 1
    /\ ~includes(returned.result[1].location, <<"U","t","a","h">>)

\* C9: a searchCondition call all of whose adapters yield nothing returns
\* articles, lawFirms and settlements that are each a non-empty list of
\* records tagged source = fallback.
SearchReturnsNonEmptyFallbackLists ==
    (/\ returned.op = "searchCondition"
     /\ ~returned.hit
     /\ \A i \in DOMAIN returned.subs :
          /\ ~returned.subs[i].hit
          /\ returned.subs[i].sheetsVal = <<>>
          /\ returned.subs[i].hubVal = <<>>)
    => /\ returned.result.articles # <<>>
       /\ returned.result.lawFirms # <<>>
       /\ returned.result.settlements # <<>>
       /\ \A i \in DOMAIN returned.result.articles :
            returned.result.articles[i].source = "fallback"
       /\ \A i \in DOMAIN returned.result.lawFirms :
            returned.result.lawFirms[i].source = "fallback"
       /\ \A i \in DOMAIN returned.result.settlements :
            returned.result.settlements[i].source = "fallback"

\* Every record of the list is tagged fallback, or none is
Unmixed(list) ==
    \/ \A i \in DOMAIN list : list[i].source = "fallback"
    \/ \A i \in DOMAIN list : list[i].source # "fallback"

\* C10: every result of getAllArticles, getLawFirms and getSettlementData, be it
\* returned to a client or to searchCondition, from the providers or from the
\* cache, is all fallback records or holds no fallback record.
ResultsNeverMixFallbackAndProvider ==
    /\ returned.op \in {"getAllArticles", "getLawFirms", "getSettlementData"}
         => Unmixed(returned.result)
    /\ (returned.op = "searchCondition" /\ ~returned.hit)
         => \A i \in DOMAIN returned.subs : Unmixed(returned.subs[i].result)

\* getAllArticles answered from the cache with records of both providers
CachedArticlesOfBothProviders ==
    /\ returned.op = "getAllArticles"
    /\ returned.hit
    /\ \E i, j \in DOMAIN returned.result :
         /\ returned.result[i].source = "google_sheets"
         /\ returned.result[j].source = "hubspot"


\* C11: in getAllArticles and getLawFirms, when one adapter yields nothing (its
\* request threw) and the other returns records, the operation returns exactly
\* the records of the other; and the spreadsheet article adapter returns the
\* rows of every sheet it could read, whichever other sheets it could not.
AdapterFailureIsIsolated ==
    /\ (/\ returned.op \in {"getAllArticles", "getLawFirms"}
        /\ ~returned.hit
        /\ returned.hubVal = <<>>
        /\ returned.sheetsVal # <<>>)
       => returned.result = returned.sheetsVal
    /\ (/\ returned.op \in {"getAllArticles", "getLawFirms"}
        /\ ~returned.hit
        /\ returned.sheetsVal = <<>>
        /\ returned.hubVal # <<>>)
       => returned.result = returned.hubVal
    /\ pureIn.fn = "getArticlesFromGoogleSheets"
       => \A n \in DOMAIN pureIn.ok :
            pureIn.ok[n]
            => LET sheetName == SheetsToRead("getAllArticles")[n]
               IN  \A i \in DOMAIN SheetRows(sheetName) :
                     \E k \in DOMAIN pureOut :
                       /\ pureOut[k].title = mapSheetRowToArticle(SheetRows(sheetName)[i], sheetName).title
                       /\ pureOut[k].source = "google_sheets"

\* The CRM holds articles and its request threw; getAllArticles returned the
\* spreadsheet's article
CrmThrewSpreadsheetReturned ==
    /\ returned.op = "getAllArticles"
    /\ ~returned.hit
    /\ provider.diseases # <<>>
    /\ returned.hubVal = <<>>
    /\ returned.sheetsVal # <<>>
    /\ returned.result = returned.sheetsVal


\* C12: a read of either cache tier (getFromCache on the in-memory Map with
\* the ttl of 5 minutes, getCachedData on the cache files with the ttl it is
\* given) returns the stored data if an entry for the key exists and
\* now - timestamp < ttl, and reports absent otherwise.
CacheReadReturnsFreshEntryOnly ==
    returned.op \in {"getFromCache", "getCachedData"}
    => LET fresh == /\ returned.entry.exists
                    /\ now - returned.entry.timestamp < returned.ttl
       IN  /\ returned.result.found <=> fresh
           /\ fresh => returned.result.data = returned.entry.data

\* A file entry read exactly ttl after it was stored is reported absent
FileEntryAbsentAtTtl ==
    /\ returned.op = "getCachedData"
    /\ returned.entry.exists
    /\ now - returned.entry.timestamp = returned.ttl
    /\ ~returned.result.found


\* C13: no query operation returns records whose provider responses were
\* obtained more than the cache validity interval before the return
NoResultOlderThanTtl ==
    returned.op \in {"getAllArticles", "getLawFirms", "getSettlementData", "searchCondition"}
        => now - returned.obtained <= cacheTimeout


\* C14: once every writer of a cache entry has finished, the entry is the
\* complete {data, timestamp} document of one set call, never a mixture of two
EntryIsOneWritersDocument ==
    (\A w \in WriterIds : writers[w].pc = "idle")
        => \A k \in DOMAIN files : files[k].kind = "json"


\* C15: a call answered from the cache right after another call has returned
\* reads the entry of that call's key only if it is the same operation with the
\* same argument values
CacheKeyIsFaithfulSignature ==
    [][(/\ returned.op # "none"
        /\ returned'.op # "none"
        /\ returned'.hit
        /\ CacheKey(returned.op, returned.a1, returned.a2)
              = CacheKey(returned'.op, returned'.a1, returned'.a2))
          => /\ returned'.op = returned.op
             /\ returned'.a1 = returned.a1
             /\ returned'.a2 = returned.a2]_vars


\* C16: no two records of a result of getAllArticles or getLawFirms have the
\* same id
ResultIdsAreUnique ==
    returned.op \in {"getAllArticles", "getLawFirms"}
        => \A i, j \in DOMAIN returned.result :
              i # j => returned.result[i].id # returned.result[j].id


\* C17: a query operation that misses the cache sends requests only to the
\* adapters whose credential was set at construction
AdapterWithoutCredentialIsNeverInvoked ==
    (returned.op \in {"getAllArticles", "getLawFirms", "getSettlementData"} /\ ~returned.hit)
        => returned.reqs =
              (IF env.GOOGLE_API_KEY THEN Len(SheetsToRead(returned.op)) ELSE 0)
              + (IF env.HUBSPOT_ACCESS_TOKEN THEN 1 ELSE 0)


\* C18: a connector operation whose request fails throws or returns an empty
\* list; it returns no value the provider did not give
FailedRequestThrowsOrReturnsEmpty ==
    (pureIn.fn \in {"readSheet", "searchSheet", "searchDiseases", "findLawFirms",
                    "getSettlementData", "getLegalTimeline"}
       /\ pureIn.response.failed)
        => \/ pureOut.kind = "throw"
           \/ pureOut.kind = "array" /\ pureOut.value = <<>>

\* C19: readSheet of a sheet name the spreadsheet does not know, which the
\* provider refuses with a response that is not OK, returns an empty result
UnknownSheetReadsEmpty ==
    (pureIn.fn = "readSheet" /\ ~pureIn.response.failed /\ ~pureIn.response.ok)
        => pureOut.kind = "object" /\ pureOut.data = <<>>


\* The cell of a row of the sheet in column k, empty when the row is shorter
Cell(row, k) == IF k <= Len(row) THEN row[k] ELSE <<>>

\* The row of the sheet matches the query: in the first column named `column`
\* up to case, or in any column when none is named
RowMatches(headers, row, query, column) ==
    IF Truthy(column)
    THEN \E k \in DOMAIN headers :
            /\ toLowerCase(headers[k]) = toLowerCase(column)
            /\ \A j \in 1..(k - 1) : toLowerCase(headers[j]) # toLowerCase(column)
            /\ includes(toLowerCase(Cell(row, k)), toLowerCase(query))
    ELSE \E k \in DOMAIN headers \cup DOMAIN row :
            includes(toLowerCase(Cell(row, k)), toLowerCase(query))

\* The rows of the sheet that match, as row objects, in sheet order
RECURSIVE MatchingRows(_, _, _, _)
MatchingRows(headers, rows, query, column) ==
    IF rows = <<>> THEN <<>>
    ELSE (IF RowMatches(headers, Head(rows), query, column)
          THEN <<RowObject(headers, Head(rows))>> ELSE <<>>)
         \o MatchingRows(headers, Tail(rows), query, column)

\* C20: a searchSheet call that returns gives as total the number of rows of
\* the sheet that match the query and as results the first min(limit, total)
\* of them in sheet order
SearchSheetCountsAndLimitsMatches ==
    (pureIn.fn = "searchSheet" /\ pureOut.kind = "object" /\ Len(pureIn.response.values) > 0)
        => LET matching == MatchingRows(Head(pureIn.response.values),
                                        Tail(pureIn.response.values),
                                        pureIn.query, pureIn.column)
               shown == IF pureIn.limit < Len(matching) THEN pureIn.limit ELSE Len(matching)
           IN  /\ pureOut.total = Len(matching)
               /\ pureOut.results = SubSeq(matching, 1, shown)

\* The same statement on the sheets whose two header names differ, where it holds
SearchSheetDistinctHeaders ==
    (pureIn.fn = "searchSheet" /\ pureOut.kind = "object" /\ Len(pureIn.response.values) > 0
       /\ Head(pureIn.response.values)[1] # Head(pureIn.response.values)[2])
        => LET matching == MatchingRows(Head(pureIn.response.values),
                                        Tail(pureIn.response.values),
                                        pureIn.query, pureIn.column)
               shown == IF pureIn.limit < Len(matching) THEN pureIn.limit ELSE Len(matching)
           IN  /\ pureOut.total = Len(matching)
               /\ pureOut.results = SubSeq(matching, 1, shown)


\* C21: getSettlementData or searchCondition called without its condition
\* does not return a result: the caller receives an error
MissingConditionIsAnError ==
    (returned.op \in {"getSettlementData", "searchCondition"} /\ returned.a1 = UNDEFINED)
        => returned.threw


\* C22: a slug consists of a-z, 0-9 and hyphens, has no two hyphens in a row
\* and none at either end, and is its own slug
SlugIsCleanAndIdempotent ==
    pureIn.fn = "createSlug"
        => LET slug == pureOut.slug
           IN  /\ \A i \in DOMAIN slug : IsAlnum(slug[i]) \/ slug[i] = "-"
               /\ \A i \in 1..(Len(slug) - 1) : ~(slug[i] = "-" /\ slug[i + 1] = "-")
               /\ slug # <<>> => slug[1] # "-" /\ slug[Len(slug)] # "-"
               /\ pureOut.again = slug

\* A title with two characters outside a-z0-9 in a row inside it
SlugOfTitleWithRun ==
    /\ pureIn.fn = "createSlug"
    /\ pureIn.text = <<"A", " ", "_">> \/ pureIn.text = <<"A", "-", " ">>
    /\ pureOut.slug = <<"a">>


\* C23: getSettlementData returns exactly one record, tagged source =
\* fallback, whatever the providers answer
SettlementIsOneFallbackRecord ==
    returned.op = "getSettlementData"
        => /\ Len(returned.result) = 1
           /\ returned.result[1].source = "fallback"


\* C24: a call that starts while the cache has no fresh entry for its key fans
\* out to the providers even when other calls for the key are in flight, and
\* a call that fanned out returns the result of its own fan-out and stores it
EveryMissFansOutAndStoresItsOwnResult ==
    [][/\ \A c \in CallIds :
            (/\ calls[c].pc = "idle"
             /\ calls'[c].pc # "idle"
             /\ ~CacheFresh(cache, CacheKey("getAllArticles", NULL, NULL)))
               => calls'[c].pc = "wait"
       /\ (returned'.op = "getAllArticles" /\ ~returned'.hit)
            => /\ returned'.reqs = Requests("getAllArticles")
               /\ returned'.result =
                     Aggregate("getAllArticles", NULL, NULL,
                               <<returned'.sheetsVal, returned'.hubVal>>)
               /\ cache'[CacheKey("getAllArticles", NULL, NULL)] =
                     [data |-> returned'.result, timestamp |-> now]]_vars

\* A call returns its own result, which is not the one an overlapping call
\* stored before it, while yet another call is in flight
OverlappingCallsEachReturned ==
    /\ returned.op = "getAllArticles"
    /\ ~returned.hit
    /\ \E h \in history :
          /\ h.key = CacheKey("getAllArticles", NULL, NULL)
          /\ h.result # returned.result
    /\ \E c \in CallIds : calls[c].pc = "wait"


ResultSlugsAreUnique ==
    returned.op = "getAllArticles"
        => \A i, j \in DOMAIN returned.result :
              i # j => returned.result[i].slug # returned.result[j].slug


\* C27: mergeSettlementData never collapses two records whose (condition,
\* state) pairs differ: every pair of the input is the pair of a returned
\* record
NoCollapseOfDifferentPairs ==
    pureIn.fn = "mergeSettlementData"
    => \A item \in {(pureIn.a \o pureIn.b)[i] : i \in DOMAIN (pureIn.a \o pureIn.b)} :
          \E k \in DOMAIN pureOut :
              /\ pureOut[k].condition = item.condition
              /\ pureOut[k].state = item.state


\* C28: a result of getFDARecalls(product, limit) has at most `limit` entries,
\* also when it is answered from a cache entry that a call with the same
\* product and another limit has written
RecallsResultWithinLimit ==
    returned.op = "getFDARecalls" => Len(returned.result) <= returned.limit

\* C29: when the provider fetch and parse succeed, the operation returns the
\* fetched records, whether or not the cache entry could be written
FetchedRecordsReturnedDespiteCacheFailure ==
    (/\ returned.op \in {"getFDARecalls", "getCourtCases"}
     /\ ~returned.hit
     /\ returned.reqs = 1
     /\ returned.response.ok)
        => returned.result = returned.fetched

\* C30: getCourtCases with a non-null caseType that misses the cache issues a
\* request to the court provider and, when the provider answers, returns the
\* mapped cases
CourtCasesOfTypeAreRequested ==
    (/\ returned.op = "getCourtCases"
     /\ returned.a2 # NULL
     /\ ~returned.hit)
        => /\ returned.reqs = 1
           /\ returned.response.ok
                => /\ returned.result = returned.fetched
                   /\ Len(returned.result) = Len(returned.response.cases)

=============================================================================
